---- MODULE Spec2Model ----
(***************************************************************************)
(* A model of Mr. OTCS (TheOpponent/mr-otcs): the stream supervisor of     *)
(* main.py, the alert dispatcher of mail.py and the schedule generator of  *)
(* playlist.py.  Time is counted in ticks of one second (one pass of the   *)
(* 1 Hz poll loop of encoder_task); configured durations are small numbers *)
(* of ticks.                                                               *)
(***************************************************************************)
EXTENDS Integers, Sequences, FiniteSets, TLC

VARIABLES
    cfg,            \* config.py: the settings record, with media_playlist
    pc,             \* position of main() in its loop and handlers
    stats,          \* StreamStats: elapsed_time, video_resume_point, ...
    loc,            \* locals of main(): play_index, restarted, retried, ...
    index_file,     \* contents of config.PLAY_INDEX_FILE: index and elapsed
    relays,         \* running processes whose command line is the relay's
    rtmp_process,   \* the Popen handle main() holds: none/running/exited/killed
    encoders,       \* command lines of the running encoder processes
    et,             \* locals of encoder_task and its Popen handle
    pending,        \* indices handed to write_index threads not yet written
    sched,          \* stats.schedule_future and its thread: none/started/running/done
    clock,          \* wall clock, in ticks
    fix,            \* history: what the last step did (a start-position fix, a cursor write)
    hist,           \* history: the last fix before a launch, the last cursor read
    queue,          \* EMailDaemon.queue: the heap list of the PriorityQueue
    last_sent,      \* EMailDaemon.last_sent: alert type -> ticks since the recorded time, -1 if absent
    lock,           \* EMailDaemon._lock: free, or the thread that holds it for good
    running,        \* EMailDaemon.running
    retry_delay,    \* EMailDaemon.retry_delay
    worker,         \* EMailDaemon.thread: its position in run() and its locals
    caller,         \* the supervisor as a user of the dispatcher: run/blocked/stopped
    sends,          \* history: alert type -> ticks since its last successful send, -1 if none
    mstep,          \* history: the message the last step sent or the error it logged
    recent_playlist,\* StreamStats.recent_playlist: coming_up_next of the last schedule
    previous_files, \* StreamStats.previous_files
    schedule_json,  \* contents of config.SCHEDULE_PATH
    utc,            \* wall clock of the schedule generator, in ticks
    play,           \* main() as the caller of write_schedule: the item it is at
    REMOTE_ADDRESS, \* config.REMOTE_ADDRESS, which write_schedule assigns: "host" or "None"
    wstep,          \* history: the last write_schedule call and how it ended
    VERBOSE,        \* config.VERBOSE: the mask of the levels printed
    stdout          \* the last print2 call: its arguments and what it printed and logged

supVars == <<cfg, pc, stats, loc, index_file, relays, rtmp_process, encoders,
             et, pending, sched, clock, fix, hist>>

mailVars == <<queue, last_sent, lock, running, retry_delay, worker, caller,
              sends, mstep>>

schedVars == <<recent_playlist, previous_files, schedule_json, utc, play,
               REMOTE_ADDRESS, wstep>>

printVars == <<VERBOSE, stdout>>

vars == <<supVars, mailVars, schedVars, printVars>>

Max(a, b) == IF a >= b THEN a ELSE b
Min(a, b) == IF a <= b THEN a ELSE b

(***************************************************************************)
(* Bounds of the model.                                                    *)
(***************************************************************************)
MaxClock == 4       \* ticks of wall clock explored
MaxTotal == 6       \* cap on total_elapsed_time
MaxVideos == 2      \* cap on videos_since_restart
MaxPending == 2     \* write_index threads in flight at once
MaxResumes == 2     \* stream_resume alerts counted
MaxUploadAttempts == 4  \* REMOTE_UPLOAD_ATTEMPTS of the uploads
CheckUrls == 2      \* URLs in CHECK_URL
MaxHours == 3       \* hours of wall clock in which versions are checked
MaxMinutes == 130   \* minutes of wall clock in which schedule_error alerts are processed

(***************************************************************************)
(* playlist.py: PlaylistEntry.  length is what get_length() returns, file  *)
(* says whether os.path.isfile() finds the path ("late": not at first, but *)
(* at some later call), excluded whether the name                          *)
(* starts with SCHEDULE_EXCLUDE_FILE_PATTERN.                              *)
(***************************************************************************)
PlaylistEntry(t, i, l, f, x) ==
    [type |-> t, info |-> i, length |-> l, file |-> f, excluded |-> x]
NormalEntry(l) == PlaylistEntry("normal", "", l, "present", FALSE)
MissingEntry(l) == PlaylistEntry("normal", "", l, "absent", FALSE)
\* a file that is not there at first and appears later
LateEntry(l) == PlaylistEntry("normal", "", l, "late", FALSE)
ExcludedEntry(l) == PlaylistEntry("normal", "", l, "present", TRUE)
BlankEntry == PlaylistEntry("blank", "", 0, "present", FALSE)
ExtraEntry == PlaylistEntry("extra", "x", 0, "present", FALSE)
CommandEntry(d) == PlaylistEntry("command", d, 0, "present", FALSE)

\* create_playlist(): the entries, with %STOP appended under STOP_AFTER_LAST_VIDEO.
create_playlist(lines, stop_after_last) ==
    IF stop_after_last THEN Append(lines, CommandEntry("STOP")) ELSE lines

media_playlist == cfg.MEDIA_PLAYLIST
media_playlist_length == Len(cfg.MEDIA_PLAYLIST)
\* media_playlist[play_index][1], Python's 0-based index
Entry(i) == cfg.MEDIA_PLAYLIST[i + 1]

(***************************************************************************)
(* streamstats.py                                                          *)
(***************************************************************************)
\* StreamStats.rewind
rewind(s, time) == [s EXCEPT !.elapsed_time = Max(0, s.elapsed_time - time)]

\* A datetime: the tick, and whether it carries a time zone.  mail.py 54
\* sets mail_daemon.last_exception_time to datetime.now(timezone.utc),
\* main.py 1194 to datetime.now().
AwareTime(t) == [t |-> t, tzinfo |-> "utc"]
NaiveTime(t) == [t |-> t, tzinfo |-> "none"]
NoTime == [t |-> -1, tzinfo |-> "none"]

\* StreamStats.__init__, with mail_daemon.last_exception_time of mail.py 54
StreamStatsInit(c) ==
    [ elapsed_time |-> 0,
      video_resume_point |-> 0,
      videos_since_restart |-> 0,
      stream_time_remaining |-> c.STREAM_TIME_BEFORE_RESTART,
      last_connection_check |-> 0 - c.CHECK_INTERVAL,
      last_exception_time |-> AwareTime(0) ]

(***************************************************************************)
(* main.py: the child processes.                                           *)
(***************************************************************************)
\* rtmp_task without the kill of the processes already running
rtmp_task_keep(n) == n + 1

\* rtmp_task: kill every process matching the relay's command line, start one.
rtmp_task(n) == 0 + 1

\* stop_stream: kill every process matching the relay's command line.
stop_stream(n) == 0

\* kill_media_player: kill every process with MEDIA_PLAYER_PATH in its command line.
kill_media_player(procs) == << >>

\* encoder_task, lines 305-314: kill the processes with the same command line.
KillSameCommand(procs, cmd) == SelectSeq(procs, LAMBDA c : c # cmd)

\* process.kill() / process exit: the handle's process is gone.
RemoveProcess(procs, cmd) == SelectSeq(procs, LAMBDA c : c # cmd)

StoppedHandle(h) == IF h = "running" THEN "killed" ELSE h

NoTask ==
    [ ctx |-> "none", cmd |-> << >>, proc |-> "none", code |-> 0,
      write_index_wait |-> 0, check_connection_wait |-> 0,
      check_connection_future |-> "none", polls |-> 0 ]

(***************************************************************************)
(* config.py: the settings.  Durations are in ticks; a clip length of 0    *)
(* stands for STREAM_RESTART_BEFORE_VIDEO / _AFTER_VIDEO being None.       *)
(***************************************************************************)
Plain ==
    [ STBR |-> 0, WAIT |-> 1, MINT |-> 0, WAR |-> 0, STOP |-> FALSE,
      DELAY |-> 0, BEFORE |-> 0, AFTER |-> 0, CHECK |-> FALSE, RETRY |-> 0,
      SCHED |-> FALSE, PATTERN |-> FALSE, PAD |-> 0, STRICT |-> TRUE ]
Manual == [Plain EXCEPT !.DELAY = 1]
Timed == [Plain EXCEPT !.STBR = 4, !.WAR = 1]
Clips == [Plain EXCEPT !.BEFORE = 1, !.AFTER = 1, !.CHECK = TRUE, !.MINT = 1,
                       !.PAD = 1]
Scheduled == [Plain EXCEPT !.SCHED = TRUE, !.PATTERN = TRUE, !.STBR = 4]
Stopping == [Plain EXCEPT !.STOP = TRUE, !.RETRY = 1]
Lenient == [Plain EXCEPT !.CHECK = TRUE, !.STRICT = FALSE]
Budget == [Plain EXCEPT !.STBR = 2]
Unfiltered == [Scheduled EXCEPT !.PATTERN = FALSE]

\* The settings explored, each with a playlist that exercises them.
Scenarios ==
    { << Manual, << NormalEntry(3), NormalEntry(2) >> >>,
      << Plain, << CommandEntry("EXCEPTION"), MissingEntry(2), NormalEntry(3) >> >>,
      << Timed, << NormalEntry(3), NormalEntry(2) >> >>,
      << Clips, << BlankEntry, NormalEntry(3), ExtraEntry, CommandEntry("RESTART"),
                   MissingEntry(2) >> >>,
      << Scheduled, << NormalEntry(3), ExcludedEntry(2) >> >>,
      << Lenient, << NormalEntry(3) >> >>,
      << Budget, << NormalEntry(2), NormalEntry(3) >> >>,
      << Unfiltered, << NormalEntry(2) >> >>,
      << Stopping, << NormalEntry(2), CommandEntry("INSTANT_RESTART"),
                      CommandEntry("MAIL"), MissingEntry(2) >> >> }

Config(p, rl, tri, lines) ==
    [ REWIND_LENGTH |-> rl,
      TIME_RECORD_INTERVAL |-> tri,
      VIDEO_PADDING |-> p.PAD,
      STREAM_TIME_BEFORE_RESTART |-> p.STBR,
      STREAM_RESTART_WAIT |-> p.WAIT,
      STREAM_RESTART_MINIMUM_TIME |-> p.MINT,
      STREAM_WAIT_AFTER_RETRY |-> p.WAR,
      STOP_AFTER_LAST_VIDEO |-> p.STOP,
      STREAM_MANUAL_RESTART_DELAY |-> p.DELAY,
      STREAM_RESTART_BEFORE_VIDEO |-> p.BEFORE,
      STREAM_RESTART_AFTER_VIDEO |-> p.AFTER,
      CHECK_URL |-> p.CHECK,
      CHECK_STRICT |-> p.STRICT,
      CHECK_INTERVAL |-> 2,
      RETRY_ATTEMPTS |-> p.RETRY,
      RETRY_PERIOD |-> 1,
      SCHEDULE_PATH |-> p.SCHED,
      SCHEDULE_EXCLUDE_FILE_PATTERN |-> p.PATTERN,
      MAIL_ENABLE |-> FALSE,
      MAIL_ALERT_ON_REMOTE_ERROR |-> FALSE,
      REMOTE_ADDRESS |-> "None",
      REMOTE_UPLOAD_ATTEMPTS |-> 1,
      MEDIA_PLAYLIST |-> create_playlist(lines, p.STOP) ]

\* REWIND_LENGTH and TIME_RECORD_INTERVAL: equal, and either one the longer.
Intervals == { <<1, 1>>, <<2, 1>>, <<1, 2>> }

Configs ==
    { Config(sc[1], iv[1], iv[2], sc[2]) : sc \in Scenarios, iv \in Intervals }

\* What an earlier run can have left in the cursor file.
Cursors(c) ==
    { [idx |-> i, el |-> 0] : i \in 0..Len(c.MEDIA_PLAYLIST) }
        \cup { [idx |-> 0, el |-> 2] }

NoHistory ==
    [ kind |-> "none", t |-> 0, vrp |-> 0, read_index |-> 0, wrapped |-> FALSE,
      raced |-> FALSE ]

\* What the last step did: the position it fixed, the cursor write it made,
\* the add_alert calls it made that returned, and the exception it raised.
NoStep ==
    [ kind |-> "none", write |-> "none", from |-> 0, alerts |-> << >>,
      reached |-> << >> ]
FixStep(kind) == [NoStep EXCEPT !.kind = kind]
WriteStep(kind) == [NoStep EXCEPT !.write = kind, !.from = index_file.idx]

\* An add_alert call of the supervisor: its type and keyword arguments.
Alert(t, urgent, exception_time) ==
    [alert_type |-> t, urgent |-> urgent, exception_time |-> exception_time]

\* streamstats.py, lines 211-218, with every MAIL_ALERT_ON_ setting on
mail_daemon_running == cfg.MAIL_ENABLE /\ running

\* the add_alert calls of one type among those a step made
Count(alerts, t) ==
    Cardinality({ k \in 1..Len(alerts) : alerts[k].alert_type = t })

\* mail.py, lines 259-262: datetime.now(timezone.utc) - exception_time raises
\* TypeError when exception_time is given without a time zone.
add_alert_raises(exception_time) ==
    exception_time.t >= 0 /\ exception_time.tzinfo = "none"

(***************************************************************************)
(* main(): lines 524-561, up to the first pass of the loop.  alert_sent is *)
(* the local of utils.check_file; resumes counts the stream_resume alerts  *)
(* added since an encoder last exited with code 0.                         *)
(* recovered, directive and timed are history: the exception of the last   *)
(* recovery, the index of the last %RESTART or %INSTANT_RESTART executed,  *)
(* and whether a time-based restart was made, until the encoder is         *)
(* launched for an item again.                                             *)
(***************************************************************************)
Locals ==
    [ play_index |-> 0, restarted |-> FALSE, retried |-> FALSE,
      instant_restarted |-> FALSE, total_elapsed_time |-> 0,
      next_video_length |-> 0, video_start_time |-> 0,
      retry_attempts_remaining |-> 0, alert_sent |-> FALSE,
      resumes |-> 0, exc |-> "none", recovered |-> "none",
      directive |-> -1, timed |-> FALSE ]

MainLocals ==
    /\ pc = "start"
    /\ stats = StreamStatsInit(cfg)
    /\ loc = Locals
    /\ rtmp_process = "none"
    /\ encoders = << >>
    /\ et = NoTask
    /\ pending = << >>
    /\ sched = "none"
    /\ clock = 0
    /\ fix = NoStep
    /\ hist = NoHistory

SupInit ==
    /\ cfg \in Configs
    /\ index_file \in Cursors(cfg)
    /\ relays \in 0..1
    /\ MainLocals

\* The supervisor before its first step, under one of the settings: the
\* state in which the dispatcher and the schedule generator are explored
\* on their own.
SupIdle ==
    /\ cfg = Config(Plain, 1, 1, << NormalEntry(2) >>)
    /\ index_file = [idx |-> 0, el |-> 0]
    /\ relays = 0
    /\ MainLocals

\* main(), line 537: rtmp_process = rtmp_task(stats)
Startup ==
    /\ pc = "start"
    /\ relays' = rtmp_task(relays)
    /\ rtmp_process' = "running"
    /\ pc' = "top"
    /\ fix' = NoStep
    /\ UNCHANGED <<cfg, stats, loc, index_file, encoders, et, pending, sched,
                   clock, hist>>

(***************************************************************************)
(* encoder_task, lines 305-349: the command line, the stale encoders with  *)
(* the same command line killed, the timers set, the process started.      *)
(***************************************************************************)
Command(file, index, skip_time) ==
    [file |-> file, index |-> index, skip |-> skip_time]

encoder_task(ctx, cmd) ==
    LET age == clock - stats.last_connection_check
    IN  [ ctx |-> ctx, cmd |-> cmd, proc |-> "running", code |-> 0,
          write_index_wait |-> cfg.TIME_RECORD_INTERVAL,
          check_connection_wait |->
              IF ~cfg.CHECK_URL THEN 0
              ELSE IF age < cfg.CHECK_INTERVAL THEN cfg.CHECK_INTERVAL - age
              ELSE cfg.CHECK_INTERVAL,
          check_connection_future |->
              IF ~cfg.CHECK_URL THEN "none"
              ELSE IF age < cfg.CHECK_INTERVAL THEN "returned"
              ELSE "pending",
          polls |-> 0 ]

StartEncoder(ctx, cmd) ==
    /\ et' = encoder_task(ctx, cmd)
    /\ encoders' = Append(KillSameCommand(encoders, cmd), cmd)

\* main(), lines 624-647: the cursor file read into play_index and elapsed_time.
ReadIndex(l) == [l EXCEPT !.play_index = index_file.idx]

\* main(), lines 567-577: the BEFORE clip counted ahead of time.
BeforeAccounting(total) ==
    IF cfg.STREAM_RESTART_BEFORE_VIDEO > 0
    THEN total + cfg.STREAM_RESTART_BEFORE_VIDEO + cfg.VIDEO_PADDING
    ELSE total

(***************************************************************************)
(* main(), lines 564-647: the top of the loop.  After a restart the AFTER  *)
(* clip is encoded first; otherwise the flags are cleared and the cursor   *)
(* file is read.                                                           *)
(***************************************************************************)
LoopTop ==
    /\ pc = "top"
    /\ BeforeAccounting(loc.total_elapsed_time) <= MaxTotal
    /\ fix' = NoStep
    /\ IF loc.restarted /\ cfg.STREAM_RESTART_AFTER_VIDEO > 0
       THEN /\ BeforeAccounting(loc.total_elapsed_time)
                  + cfg.STREAM_RESTART_AFTER_VIDEO + cfg.VIDEO_PADDING <= MaxTotal
            /\ loc' = [loc EXCEPT
                  !.total_elapsed_time =
                      BeforeAccounting(loc.total_elapsed_time)
                      + cfg.STREAM_RESTART_AFTER_VIDEO + cfg.VIDEO_PADDING,
                  !.next_video_length = cfg.STREAM_RESTART_AFTER_VIDEO]
            /\ StartEncoder("after", Command("after", 0, 0))
            /\ pc' = "poll"
            /\ UNCHANGED <<stats, hist>>
       ELSE /\ loc' = [ReadIndex(loc) EXCEPT
                  !.total_elapsed_time = BeforeAccounting(loc.total_elapsed_time),
                  !.restarted = FALSE,
                  !.instant_restarted = FALSE,
                  !.retried = IF loc.restarted \/ loc.instant_restarted
                              THEN FALSE ELSE loc.retried]
            /\ stats' = [stats EXCEPT !.elapsed_time = index_file.el]
            /\ hist' = [NoHistory EXCEPT !.read_index = index_file.idx]
            /\ pc' = "walk"
            /\ UNCHANGED <<et, encoders>>
    /\ UNCHANGED <<cfg, index_file, relays, rtmp_process, pending, sched, clock>>

\* main(), lines 595-620 and 624-647: after the AFTER clip's encoder returned.
AfterClip ==
    /\ pc = "after_clip"
    /\ loc' = [ReadIndex(loc) EXCEPT
          !.total_elapsed_time =
              IF et.code = 0
              THEN loc.total_elapsed_time
                   + cfg.STREAM_RESTART_AFTER_VIDEO + cfg.VIDEO_PADDING
              ELSE loc.total_elapsed_time,
          !.restarted = FALSE,
          !.instant_restarted = FALSE,
          !.retried = FALSE]
    /\ stats' = [stats EXCEPT !.elapsed_time = index_file.el]
    /\ hist' = [NoHistory EXCEPT !.read_index = index_file.idx]
    /\ pc' = "walk"
    /\ fix' = NoStep
    /\ et' = NoTask
    /\ UNCHANGED <<cfg, index_file, relays, rtmp_process, encoders, pending,
                   sched, clock>>

\* playlist.write_index(...).result(): the cursor file rewritten at once;
\* alerts are the add_alert calls of the same step.
WriteIndex(index, kind, wrapped, alerts) ==
    /\ index_file' = [idx |-> index, el |-> stats'.elapsed_time]
    /\ fix' = [WriteStep(kind) EXCEPT !.alerts = alerts]
    /\ hist' = [hist EXCEPT !.wrapped = wrapped]

\* stop_stream(executor): the relay processes killed.
StopStream ==
    /\ relays' = stop_stream(relays)
    /\ rtmp_process' = StoppedHandle(rtmp_process)

\* main(), lines 806 and 831-835: the alert of %STOP, added after
\* play_index += 1, with line_num=play_index + 1.
playlist_stop(play_index) ==
    IF mail_daemon_running
    THEN << [ alert_type |-> "playlist_stop", urgent |-> TRUE,
              exception_time |-> NoTime, line_num |-> play_index + 1 ] >>
    ELSE << >>

\* the wrap without its alert
playlist_loop_silent(atEnd) == << >>

\* main(), lines 685-691: the alert of the wrap to the first entry
playlist_loop(atEnd) ==
    IF atEnd /\ mail_daemon_running
    THEN << Alert("playlist_loop", FALSE, NoTime) >>
    ELSE << >>

(***************************************************************************)
(* main(), lines 650-897: one pass of the walk to the next Normal entry,   *)
(* with the alerts of lines 679-691, 830-835 and 842-861.                  *)
(***************************************************************************)
Walk ==
    /\ pc = "walk"
    /\ LET atEnd == loc.play_index >= media_playlist_length
           i == IF atEnd THEN 0 ELSE loc.play_index
           el0 == IF atEnd THEN 0 ELSE stats.elapsed_time
           el1 == IF stats.videos_since_restart = 0 THEN 0 ELSE el0
           e == Entry(i)
           looped == playlist_loop(atEnd)
           urgently(t) == IF mail_daemon_running
                          THEN << Alert(t, TRUE, NoTime) >> ELSE << >>
           mailed == IF mail_daemon_running
                     THEN << Alert("mail_command", FALSE, NoTime) >> ELSE << >>
           pass == e.type \in {"blank", "extra"}
                   \/ (e.type = "command" /\ e.info = "MAIL")
                   \/ (e.type = "command" /\ e.info \in {"RESTART", "INSTANT_RESTART"}
                       /\ ~(loc.total_elapsed_time > cfg.STREAM_RESTART_MINIMUM_TIME))
       IN  IF atEnd /\ cfg.STOP_AFTER_LAST_VIDEO /\ stats.elapsed_time > 0
           THEN \* lines 653-684: end of playlist, stop
                /\ loc' = [loc EXCEPT !.play_index = loc.play_index + 1]
                /\ stats' = stats
                /\ StopStream
                /\ WriteIndex(loc.play_index + 1, "end", hist.wrapped,
                              urgently("playlist_end"))
                /\ pc' = "exit0"
                /\ UNCHANGED <<et, encoders, pending>>
           ELSE IF e.type = "normal"
           THEN \* lines 693-694, 892-897
                /\ loc' = [loc EXCEPT !.play_index = i,
                                      !.video_start_time = clock,
                                      !.retry_attempts_remaining = cfg.RETRY_ATTEMPTS,
                                      !.alert_sent = FALSE]
                /\ stats' = [stats EXCEPT !.elapsed_time = el0]
                /\ hist' = [hist EXCEPT !.wrapped = hist.wrapped \/ atEnd]
                /\ fix' = [NoStep EXCEPT !.alerts = looped]
                /\ pc' = "check_file"
                /\ UNCHANGED <<index_file, relays, rtmp_process, et, encoders, pending>>
           ELSE IF pass
           THEN \* lines 697-715, 761-766, 793-798, 841-872
                /\ loc' = [loc EXCEPT !.play_index = i + 1]
                /\ stats' = [stats EXCEPT !.elapsed_time = el1]
                /\ hist' = [hist EXCEPT !.wrapped = hist.wrapped \/ atEnd]
                /\ fix' = [NoStep EXCEPT !.alerts =
                              IF e.type = "command" /\ e.info = "MAIL"
                              THEN looped \o mailed ELSE looped]
                /\ pc' = "walk"
                /\ UNCHANGED <<index_file, relays, rtmp_process, et, encoders, pending>>
           ELSE IF e.info = "RESTART"
           THEN \* lines 719-744
                /\ loc' = [loc EXCEPT !.play_index = i, !.restarted = TRUE]
                /\ stats' = [stats EXCEPT !.elapsed_time = el1]
                /\ hist' = [hist EXCEPT !.wrapped = hist.wrapped \/ atEnd]
                /\ fix' = [NoStep EXCEPT !.alerts = looped]
                /\ IF cfg.STREAM_RESTART_BEFORE_VIDEO > 0
                   THEN StartEncoder("before_command", Command("before", 0, 0))
                        /\ pc' = "poll"
                   ELSE UNCHANGED <<et, encoders>> /\ pc' = "restart_command"
                /\ UNCHANGED <<index_file, relays, rtmp_process, pending>>
           ELSE IF e.info = "INSTANT_RESTART"
           THEN \* lines 768-771
                /\ loc' = [loc EXCEPT !.play_index = i, !.instant_restarted = TRUE]
                /\ stats' = [stats EXCEPT !.elapsed_time = el1]
                /\ hist' = [hist EXCEPT !.wrapped = hist.wrapped \/ atEnd]
                /\ fix' = [NoStep EXCEPT !.alerts = looped]
                /\ pc' = "restart_command"
                /\ UNCHANGED <<index_file, relays, rtmp_process, et, encoders, pending>>
           ELSE IF e.info = "STOP"
           THEN \* lines 800-839
                /\ loc' = [loc EXCEPT !.play_index = i + 1, !.directive = i]
                /\ stats' = [stats EXCEPT !.elapsed_time = el1]
                /\ StopStream
                /\ WriteIndex(i + 1, "stop", hist.wrapped \/ atEnd,
                              looped \o playlist_stop(i + 1))
                /\ pc' = "exit0"
                /\ UNCHANGED <<et, encoders, pending>>
           ELSE IF e.info # "EXCEPTION"
           THEN \* lines 717-881: a directive none of the tests names; the
                \* loop comes back to the same entry
                /\ loc' = [loc EXCEPT !.play_index = i]
                /\ stats' = [stats EXCEPT !.elapsed_time = el1]
                /\ hist' = [hist EXCEPT !.wrapped = hist.wrapped \/ atEnd]
                /\ fix' = [NoStep EXCEPT !.alerts = looped]
                /\ pc' = "walk"
                /\ UNCHANGED <<index_file, relays, rtmp_process, et, encoders, pending>>
           ELSE \* lines 874-881: %EXCEPTION, its write_index left running
                /\ Len(pending) < MaxPending
                /\ loc' = [loc EXCEPT !.play_index = i + 1,
                                      !.exc = "ExceptionCommand"]
                /\ stats' = [stats EXCEPT !.elapsed_time = el1]
                /\ hist' = [hist EXCEPT !.wrapped = hist.wrapped \/ atEnd]
                /\ fix' = [NoStep EXCEPT !.alerts = looped]
                /\ pending' = Append(pending, i + 1)
                /\ pc' = "recover"
                /\ UNCHANGED <<index_file, relays, rtmp_process, et, encoders>>
    /\ UNCHANGED <<cfg, sched, clock>>

\* playlist.write_index, lines 870-878, run by a thread nobody waits for.
WriteIndexThread ==
    \E k \in 1..Len(pending) :
        /\ index_file' = [idx |-> pending[k], el |-> stats.elapsed_time]
        /\ pending' = SubSeq(pending, 1, k - 1) \o SubSeq(pending, k + 1, Len(pending))
        /\ fix' = WriteStep("exception")
        /\ hist' = [hist EXCEPT !.raced = TRUE]
        /\ UNCHANGED <<cfg, pc, stats, loc, relays, rtmp_process, encoders, et,
                       sched, clock>>

\* the index moved on by two
NextIndex_two(play_index) == play_index + 2

\* lines 1065-1070 and 1158-1163
NextIndex(play_index) ==
    IF play_index > media_playlist_length THEN 0 ELSE play_index + 1

\* time.sleep(n)
Sleep(n) ==
    /\ clock + n <= MaxClock
    /\ clock' = clock + n

(***************************************************************************)
(* main(), line 897 with utils.check_file, and lines 1149-1171: the file   *)
(* of the Normal entry looked for; a missing file is retried, for ever     *)
(* when RETRY_ATTEMPTS is negative, then skipped with the cursor moved     *)
(* past it.                                                                *)
(***************************************************************************)
\* os.path.isfile(path)
isfile(e) == IF e.file = "late" THEN BOOLEAN ELSE { e.file = "present" }

\* main.py 897 calls check_file(video_file.path): stats is left None
StatsPassed == FALSE

CheckFile ==
    /\ pc = "check_file"
    /\ \E found \in isfile(Entry(loc.play_index)) :
         LET remaining == loc.retry_attempts_remaining
             alerting == /\ ~loc.alert_sent
                         /\ StatsPassed
                         /\ remaining < 0
                         /\ mail_daemon_running
         IN  IF found
             THEN \* utils.py 133-139
                  /\ pc' = "play"
                  /\ fix' = [NoStep EXCEPT !.alerts =
                                IF loc.alert_sent /\ StatsPassed /\ mail_daemon_running
                                THEN << Alert("stream_resume", FALSE, NoTime) >>
                                ELSE << >>]
                  /\ UNCHANGED <<loc, stats, index_file, hist, clock>>
             ELSE IF remaining # 0
             THEN \* utils.py 91-131
                  /\ loc' = [loc EXCEPT
                        !.retry_attempts_remaining =
                            IF remaining > 0 THEN remaining - 1 ELSE remaining,
                        !.alert_sent = loc.alert_sent \/ alerting]
                  /\ Sleep(cfg.RETRY_PERIOD)
                  /\ pc' = "check_file"
                  /\ fix' = [NoStep EXCEPT !.alerts =
                                IF alerting
                                THEN << Alert("playlist_file_retry", FALSE, NoTime) >>
                                ELSE << >>]
                  /\ UNCHANGED <<stats, index_file, hist>>
             ELSE \* utils.py 113-124, main.py 1149-1171
                  /\ loc' = [loc EXCEPT !.play_index = NextIndex(loc.play_index)]
                  /\ stats' = [stats EXCEPT !.elapsed_time = 0,
                                            !.video_resume_point = 0]
                  /\ WriteIndex(NextIndex(loc.play_index), "skip", hist.wrapped,
                                IF mail_daemon_running
                                THEN << Alert("file_not_found", FALSE, NoTime) >>
                                ELSE << >>)
                  /\ pc' = "top"
                  /\ UNCHANGED clock
    /\ UNCHANGED <<cfg, relays, rtmp_process, encoders, et, pending, sched>>

(***************************************************************************)
(* main(), lines 899-964 and 1115-1127: the item either fits the stream    *)
(* time left, and its start position is fixed, or a time-based restart     *)
(* begins.                                                                 *)
(***************************************************************************)
\* the test without videos_since_restart
Fits_budget(length) ==
    \/ cfg.STREAM_TIME_BEFORE_RESTART = 0
    \/ stats.stream_time_remaining - length - cfg.VIDEO_PADDING
           + stats.elapsed_time > 0

Fits(length) ==
    \/ cfg.STREAM_TIME_BEFORE_RESTART = 0
    \/ stats.videos_since_restart = 0
    \/ stats.stream_time_remaining - length - cfg.VIDEO_PADDING
           + stats.elapsed_time > 0

\* lines 919-931
StartPosition(s, length) ==
    IF s.elapsed_time < cfg.REWIND_LENGTH \/ s.elapsed_time >= length
    THEN [s EXCEPT !.elapsed_time = 0]
    ELSE IF s.elapsed_time > s.video_resume_point
         THEN rewind(s, cfg.REWIND_LENGTH)
         ELSE [s EXCEPT !.elapsed_time = s.video_resume_point]

Fixed(kind) ==
    [hist EXCEPT !.kind = kind, !.t = stats.elapsed_time,
                 !.vrp = stats.video_resume_point]

PlayItem ==
    /\ pc = "play"
    /\ LET length == Entry(loc.play_index).length
       IN  IF Fits(length)
           THEN /\ stats' = StartPosition(stats, length)
                /\ loc' = [loc EXCEPT
                      !.next_video_length = length + cfg.VIDEO_PADDING]
                /\ fix' = FixStep("start")
                /\ hist' = Fixed("start")
                /\ pc' = "launch"
                /\ UNCHANGED <<et, encoders>>
           ELSE /\ loc' = [loc EXCEPT !.next_video_length = length,
                                      !.restarted = TRUE]
                /\ fix' = NoStep
                /\ IF cfg.STREAM_RESTART_BEFORE_VIDEO > 0
                   THEN StartEncoder("before_timed", Command("before", 0, 0))
                        /\ pc' = "poll"
                   ELSE UNCHANGED <<et, encoders>> /\ pc' = "restart_timed"
                /\ UNCHANGED <<stats, hist>>
    /\ UNCHANGED <<cfg, index_file, relays, rtmp_process, pending, sched, clock>>

(***************************************************************************)
(* main(), lines 970-1034: the wait after a retry, the schedule write      *)
(* started in its thread, and the stream_resume alert of a retried item.   *)
(***************************************************************************)
StartsSchedule ==
    /\ cfg.SCHEDULE_PATH
    /\ cfg.SCHEDULE_EXCLUDE_FILE_PATTERN
    /\ ~Entry(loc.play_index).excluded
    /\ sched \in {"none", "done"}

PrepareLaunch ==
    /\ pc = "launch"
    /\ IF loc.retried /\ cfg.STREAM_WAIT_AFTER_RETRY > 0
       THEN Sleep(cfg.STREAM_WAIT_AFTER_RETRY)
       ELSE UNCHANGED clock
    /\ sched' = IF StartsSchedule THEN "started" ELSE sched
    /\ LET step == IF StartsSchedule THEN FixStep("write_schedule") ELSE NoStep
       IN  IF loc.retried /\ mail_daemon_running
           THEN IF add_alert_raises(stats.last_exception_time)
                THEN /\ loc' = [loc EXCEPT !.exc = "TypeError"]
                     /\ pc' = "fatal"
                     /\ fix' = step
                ELSE /\ loc' = [loc EXCEPT !.resumes = Min(@ + 1, MaxResumes)]
                     /\ pc' = "encode"
                     /\ fix' = [step EXCEPT !.alerts =
                           << Alert("stream_resume", FALSE,
                                    stats.last_exception_time) >>]
           ELSE /\ pc' = "encode"
                /\ fix' = step
                /\ UNCHANGED loc
    /\ UNCHANGED <<cfg, stats, index_file, relays, rtmp_process, encoders,
                   et, pending, hist>>

\* main(), lines 1037-1043 and encoder_task, lines 305-349
EncoderStart ==
    /\ pc = "encode"
    /\ StartEncoder("item", Command("item", loc.play_index, stats.elapsed_time))
    /\ pc' = "poll"
    /\ fix' = NoStep
    /\ loc' = [loc EXCEPT !.recovered = "none", !.directive = -1,
                          !.timed = FALSE]
    /\ UNCHANGED <<cfg, stats, index_file, relays, rtmp_process, pending,
                   sched, clock, hist>>

(***************************************************************************)
(* playlist.write_schedule in its thread: lines 345-346 reset elapsed_time *)
(* when it is below REWIND_LENGTH; the rest of the run ends the future.    *)
(***************************************************************************)
ScheduleElapsed(s) ==
    IF s.elapsed_time < cfg.REWIND_LENGTH THEN [s EXCEPT !.elapsed_time = 0] ELSE s

ScheduleThreadBegin ==
    /\ sched = "started"
    /\ stats' = ScheduleElapsed(stats)
    /\ sched' = "running"
    /\ fix' = NoStep
    /\ UNCHANGED <<cfg, pc, loc, index_file, relays, rtmp_process, encoders, et,
                   pending, clock, hist>>

ScheduleThreadEnd ==
    /\ sched = "running"
    /\ sched' = "done"
    /\ fix' = NoStep
    /\ UNCHANGED <<cfg, pc, stats, loc, index_file, relays, rtmp_process,
                   encoders, et, pending, clock, hist>>

(***************************************************************************)
(* encoder_task, lines 356-454: one pass of the poll loop, entered while   *)
(* both processes run.  A failed connection check kills the encoder and    *)
(* raises; the cursor is written every TIME_RECORD_INTERVAL passes, and    *)
(* elapsed_time advanced after the write; then the loop sleeps a second.   *)
(* polls counts the passes made, which is the seconds slept since the      *)
(* encoder started.                                                        *)
(***************************************************************************)
PollTick ==
    /\ pc = "poll"
    /\ et.proc = "running"
    /\ rtmp_process = "running"
    /\ LET wait == et.check_connection_wait - 1
           raised == cfg.CHECK_URL /\ wait > 0
                     /\ et.check_connection_future = "raised"
           due == cfg.CHECK_URL /\ wait <= 0
           writes == et.ctx = "item" /\ et.write_index_wait - 1 <= 0
       IN  IF raised
           THEN /\ et' = [et EXCEPT !.proc = "killed", !.check_connection_wait = wait]
                /\ encoders' = RemoveProcess(encoders, et.cmd)
                /\ loc' = [loc EXCEPT !.exc = "ConnectionCheckError"]
                /\ pc' = "recover"
                /\ fix' = NoStep
                /\ UNCHANGED <<stats, index_file, clock>>
           ELSE /\ et' = [et EXCEPT
                      !.check_connection_wait =
                          IF due THEN cfg.CHECK_INTERVAL
                          ELSE IF cfg.CHECK_URL THEN wait ELSE @,
                      !.check_connection_future = IF due THEN "pending" ELSE @,
                      !.write_index_wait =
                          IF et.ctx # "item" THEN @
                          ELSE IF writes THEN cfg.TIME_RECORD_INTERVAL ELSE @ - 1,
                      !.polls = @ + 1]
                /\ IF writes
                   THEN /\ index_file' = [idx |-> loc.play_index,
                                          el |-> stats.elapsed_time]
                        /\ fix' = WriteStep("periodic")
                        /\ stats' = [stats EXCEPT
                              !.elapsed_time = @ + cfg.TIME_RECORD_INTERVAL]
                   ELSE fix' = NoStep /\ UNCHANGED <<index_file, stats>>
                /\ Sleep(1)
                /\ UNCHANGED <<encoders, loc, pc>>
    /\ UNCHANGED <<cfg, relays, rtmp_process, pending, sched, hist>>

\* The encoder process ends by itself, with exit code 0 or 1.
EncoderExit ==
    /\ et.proc = "running"
    /\ \E code \in 0..1 : et' = [et EXCEPT !.proc = "exited", !.code = code]
    /\ encoders' = RemoveProcess(encoders, et.cmd)
    /\ fix' = NoStep
    /\ UNCHANGED <<cfg, pc, stats, loc, index_file, relays, rtmp_process,
                   pending, sched, clock, hist>>

\* The relay process ends by itself.
RelayExit ==
    /\ pc = "poll"
    /\ rtmp_process = "running"
    /\ rtmp_process' = "exited"
    /\ relays' = relays - 1
    /\ fix' = NoStep
    /\ UNCHANGED <<cfg, pc, stats, loc, index_file, encoders, et, pending,
                   sched, clock, hist>>

(***************************************************************************)
(* _check_connection in its thread, lines 96-123: a reached URL records    *)
(* the time, a failure under CHECK_STRICT forces the next check and raises.*)
(* reached[k] tells whether the k-th URL of the shuffled list answers.     *)
(* The thread of check_connection (126-140) drops the value returned.      *)
(***************************************************************************)
RECURSIVE check_connection(_, _, _)
check_connection(strict, reached, k) ==
    IF k > Len(reached) THEN "False"
    ELSE IF reached[k] THEN "True"
    ELSE IF strict THEN "ConnectionCheckError"
    ELSE check_connection(strict, reached, k + 1)

ConnectionChecked ==
    /\ et.check_connection_future = "pending"
    /\ \E reached \in [1..CheckUrls -> BOOLEAN] :
         LET result == check_connection(cfg.CHECK_STRICT, reached, 1)
         IN  /\ et' = [et EXCEPT !.check_connection_future =
                          IF result = "ConnectionCheckError" THEN "raised"
                          ELSE "returned"]
             /\ stats' = [stats EXCEPT !.last_connection_check =
                             CASE result = "True" -> clock
                               [] result = "ConnectionCheckError" ->
                                      clock - cfg.CHECK_INTERVAL
                               [] OTHER -> @]
             /\ fix' = [NoStep EXCEPT !.kind = "check_connection",
                                      !.reached = reached]
    /\ UNCHANGED <<cfg, pc, loc, index_file, relays, rtmp_process, encoders,
                   pending, sched, clock, hist>>

(***************************************************************************)
(* encoder_task, lines 456-462: the loop left.  A dead relay kills the     *)
(* encoder and raises BackgroundProcessError; otherwise the exit code is   *)
(* returned to the caller.                                                 *)
(***************************************************************************)
PollExit ==
    /\ pc = "poll"
    /\ et.proc # "running" \/ rtmp_process # "running"
    /\ fix' = NoStep
    /\ IF rtmp_process # "running"
       THEN /\ et' = [et EXCEPT !.proc = StoppedHandle(et.proc)]
            /\ encoders' = RemoveProcess(encoders, et.cmd)
            /\ loc' = [loc EXCEPT !.exc = "BackgroundProcessError"]
            /\ pc' = "recover"
       ELSE /\ pc' = CASE et.ctx = "item" -> "encoded"
                       [] et.ctx = "after" -> "after_clip"
                       [] et.ctx = "before_command" -> "restart_command"
                       [] OTHER -> "restart_timed"
            /\ et' = IF et.ctx \in {"item", "after"} THEN et ELSE NoTask
            /\ UNCHANGED <<encoders, loc>>
    /\ UNCHANGED <<cfg, stats, index_file, relays, rtmp_process, pending, sched,
                   clock, hist>>

\* the rewind after a failure as a plain maximum
RewindAfterFailure_max(s) ==
    [s EXCEPT
       !.elapsed_time = Max(s.video_resume_point, s.elapsed_time - cfg.REWIND_LENGTH),
       !.video_resume_point =
           Max(s.video_resume_point, s.elapsed_time - cfg.REWIND_LENGTH)]

\* lines 1089-1094, 1210-1212, 1235-1240: the rewind after a failure.
RewindAfterFailure(s) ==
    IF s.elapsed_time - cfg.REWIND_LENGTH > s.video_resume_point
    THEN [rewind(s, cfg.REWIND_LENGTH) EXCEPT
            !.video_resume_point = rewind(s, cfg.REWIND_LENGTH).elapsed_time]
    ELSE s

(***************************************************************************)
(* main(), lines 1047-1113: the encoder of the item returned.  Exit code 0 *)
(* moves the cursor to the next index; any other code retries the item in  *)
(* place while the stream time left admits it.                             *)
(***************************************************************************)
AfterEncode ==
    /\ pc = "encoded"
    /\ LET exit_time == clock - loc.video_start_time
           total == loc.total_elapsed_time + exit_time
           remaining == stats.stream_time_remaining - exit_time
       IN  /\ total <= MaxTotal
           /\ IF et.code = 0
              THEN /\ stats.videos_since_restart < MaxVideos
                   /\ stats' = [stats EXCEPT
                         !.stream_time_remaining = remaining,
                         !.elapsed_time = 0,
                         !.video_resume_point = 0,
                         !.videos_since_restart = @ + 1]
                   /\ loc' = [loc EXCEPT !.total_elapsed_time = total,
                                         !.retried = FALSE,
                                         !.resumes = 0,
                                         !.play_index = NextIndex(loc.play_index)]
                   /\ WriteIndex(NextIndex(loc.play_index), "success",
                                 hist.wrapped, << >>)
                   /\ pc' = "top"
              ELSE IF remaining > loc.next_video_length - exit_time
              THEN /\ stats' = RewindAfterFailure(
                                   [stats EXCEPT !.stream_time_remaining = remaining])
                   /\ loc' = [loc EXCEPT !.total_elapsed_time = total,
                                         !.retried = TRUE]
                   /\ fix' = FixStep("retry")
                   /\ hist' = Fixed("retry")
                   /\ pc' = "launch"
                   /\ UNCHANGED index_file
              ELSE /\ stats.videos_since_restart < MaxVideos
                   /\ stats' = [stats EXCEPT !.stream_time_remaining = 0,
                                             !.videos_since_restart = @ + 1]
                   /\ loc' = [loc EXCEPT !.total_elapsed_time = total,
                                         !.retried = TRUE]
                   /\ fix' = NoStep
                   /\ pc' = "top"
                   /\ UNCHANGED <<index_file, hist>>
    /\ et' = NoTask
    /\ UNCHANGED <<cfg, relays, rtmp_process, encoders, pending, sched, clock>>

(***************************************************************************)
(* main(), lines 746-759 and 779-792: a %RESTART or %INSTANT_RESTART       *)
(* directive stops the relay, waits and starts a new one.                  *)
(***************************************************************************)
RestartCommandStop ==
    /\ pc = "restart_command"
    /\ StopStream
    /\ stats' = [stats EXCEPT !.videos_since_restart = 0]
    /\ loc' = [loc EXCEPT !.total_elapsed_time = 0]
    /\ pc' = "restart_command_wait"
    /\ fix' = NoStep
    /\ UNCHANGED <<cfg, index_file, encoders, et, pending, sched, clock, hist>>

RestartCommandStart ==
    /\ pc = "restart_command_wait"
    /\ Sleep(cfg.STREAM_RESTART_WAIT)
    /\ loc' = [loc EXCEPT !.play_index = @ + 1, !.directive = loc.play_index]
    /\ relays' = rtmp_task(relays)
    /\ rtmp_process' = "running"
    /\ pc' = "top"
    /\ fix' = NoStep
    /\ UNCHANGED <<cfg, stats, index_file, encoders, et, pending, sched, hist>>

(***************************************************************************)
(* main(), lines 1130-1147: the time-based restart.                        *)
(***************************************************************************)
RestartTimedStop ==
    /\ pc = "restart_timed"
    /\ StopStream
    /\ stats' = [stats EXCEPT !.videos_since_restart = 0]
    /\ loc' = [loc EXCEPT !.total_elapsed_time = 0]
    /\ pc' = "restart_timed_wait"
    /\ fix' = NoStep
    /\ UNCHANGED <<cfg, index_file, encoders, et, pending, sched, clock, hist>>

RestartTimedStart ==
    /\ pc = "restart_timed_wait"
    /\ Sleep(cfg.STREAM_RESTART_WAIT)
    /\ relays' = rtmp_task(relays)
    /\ rtmp_process' = "running"
    /\ stats' = [stats EXCEPT
          !.stream_time_remaining = cfg.STREAM_TIME_BEFORE_RESTART]
    /\ loc' = [loc EXCEPT !.timed = TRUE]
    /\ pc' = "top"
    /\ fix' = NoStep
    /\ UNCHANGED <<cfg, index_file, encoders, et, pending, sched, hist>>

(***************************************************************************)
(* main(), lines 1179-1220: recovery from a dead relay, a failed           *)
(* connection check or %EXCEPTION.  With the dispatcher running the time   *)
(* of the exception is recorded as datetime.now() and, unless the          *)
(* connection check failed, stream_down is sent urgently with it.          *)
(***************************************************************************)
Recover ==
    /\ pc = "recover"
    /\ LET t == IF mail_daemon_running THEN NaiveTime(clock)
                ELSE stats.last_exception_time
           down == mail_daemon_running /\ loc.exc # "ConnectionCheckError"
       IN  IF down /\ add_alert_raises(t)
           THEN \* lines 1192-1202: add_alert raises inside the handler
                /\ stats' = [stats EXCEPT !.last_exception_time = t]
                /\ loc' = [loc EXCEPT !.exc = "TypeError"]
                /\ fix' = NoStep
                /\ pc' = "crashed"
                /\ UNCHANGED <<relays, rtmp_process, encoders, et, hist>>
           ELSE /\ stats' = [RewindAfterFailure(stats) EXCEPT
                      !.videos_since_restart = 0,
                      !.stream_time_remaining = cfg.STREAM_TIME_BEFORE_RESTART,
                      !.last_exception_time = t]
                /\ loc' = [loc EXCEPT !.retried = TRUE, !.exc = "none",
                                       !.recovered = loc.exc]
                /\ relays' = rtmp_task(stop_stream(relays))
                /\ rtmp_process' = "running"
                /\ encoders' = kill_media_player(encoders)
                /\ et' = NoTask
                /\ fix' = [FixStep("recover") EXCEPT !.alerts =
                              IF down THEN << Alert("stream_down", TRUE, t) >>
                              ELSE << >>]
                /\ hist' = Fixed("recover")
                /\ pc' = "top"
    /\ UNCHANGED <<cfg, index_file, pending, sched, clock>>

(***************************************************************************)
(* main(), lines 1273-1303: any other exception.  The relay is stopped and *)
(* program_error is sent with exception_time = datetime.now(); then the    *)
(* dispatcher is stopped, the encoders are killed and the exception is     *)
(* raised again.                                                           *)
(***************************************************************************)
Fatal ==
    /\ pc = "fatal"
    /\ StopStream
    /\ IF mail_daemon_running /\ add_alert_raises(NaiveTime(clock))
       THEN /\ loc' = [loc EXCEPT !.exc = "TypeError"]
            /\ UNCHANGED <<encoders, et>>
       ELSE IF ~cfg.MAIL_ENABLE
       THEN \* line 1287: stats.mail_daemon is None
            /\ loc' = [loc EXCEPT !.exc = "AttributeError"]
            /\ UNCHANGED <<encoders, et>>
       ELSE /\ encoders' = kill_media_player(encoders)
            /\ et' = NoTask
            /\ UNCHANGED loc
    /\ pc' = "crashed"
    /\ fix' = NoStep
    /\ UNCHANGED <<cfg, stats, index_file, pending, sched, clock, hist>>

(***************************************************************************)
(* main(), lines 1222-1271: Ctrl-C.  KeyboardInterrupt raised in the body  *)
(* of the loop enters the handler; with STREAM_MANUAL_RESTART_DELAY > 0 it *)
(* restarts the stream, and a KeyboardInterrupt raised inside the handler, *)
(* or the delay being 0, stops the relay and exits with status 130.  The   *)
(* first SIGINT is taken where the body of the loop blocks (the poll loop  *)
(* and the sleeps), the second anywhere in the handler.                    *)
(***************************************************************************)
TryBody ==
    { "check_file", "launch", "poll", "restart_command_wait", "restart_timed_wait" }

ManualRestart == { "interrupt", "manual_stop", "manual_kill", "manual_sleep" }

\* SIGINT delivered to the main thread.
SigInt ==
    /\ pc \in TryBody \cup ManualRestart
    /\ pc' = IF pc \in TryBody THEN "interrupt" ELSE "exiting"
    /\ fix' = NoStep
    /\ UNCHANGED <<cfg, stats, loc, index_file, relays, rtmp_process, encoders,
                   et, pending, sched, clock, hist>>

\* lines 1224-1240 and 1252-1253
Interrupt ==
    /\ pc = "interrupt"
    /\ IF cfg.STREAM_MANUAL_RESTART_DELAY > 0
       THEN /\ loc' = [loc EXCEPT !.retried = TRUE]
            /\ stats' = RewindAfterFailure(stats)
            /\ fix' = FixStep("manual")
            /\ hist' = Fixed("manual")
            /\ pc' = "manual_stop"
       ELSE /\ pc' = "exiting"
            /\ fix' = NoStep
            /\ UNCHANGED <<loc, stats, hist>>
    /\ UNCHANGED <<cfg, index_file, relays, rtmp_process, encoders, et, pending,
                   sched, clock>>

\* line 1242
ManualStop ==
    /\ pc = "manual_stop"
    /\ StopStream
    /\ pc' = "manual_kill"
    /\ fix' = NoStep
    /\ UNCHANGED <<cfg, stats, loc, index_file, encoders, et, pending, sched,
                   clock, hist>>

\* line 1243
ManualKill ==
    /\ pc = "manual_kill"
    /\ encoders' = kill_media_player(encoders)
    /\ et' = NoTask
    /\ pc' = "manual_sleep"
    /\ fix' = NoStep
    /\ UNCHANGED <<cfg, stats, loc, index_file, relays, rtmp_process, pending,
                   sched, clock, hist>>

\* lines 1244-1251
ManualStart ==
    /\ pc = "manual_sleep"
    /\ Sleep(cfg.STREAM_MANUAL_RESTART_DELAY)
    /\ stats' = [stats EXCEPT
          !.videos_since_restart = 0,
          !.stream_time_remaining = cfg.STREAM_TIME_BEFORE_RESTART]
    /\ relays' = rtmp_task(relays)
    /\ rtmp_process' = "running"
    /\ pc' = "top"
    /\ fix' = NoStep
    /\ UNCHANGED <<cfg, loc, index_file, encoders, et, pending, sched, hist>>

\* lines 1255-1271: stop_stream(executor, restart=False), sys.exit(130)
Exit130 ==
    /\ pc = "exiting"
    /\ StopStream
    /\ pc' = "exit130"
    /\ fix' = NoStep
    /\ UNCHANGED <<cfg, stats, loc, index_file, encoders, et, pending, sched,
                   clock, hist>>

SupNext ==
    \/ Startup
    \/ SigInt
    \/ Interrupt
    \/ ManualStop
    \/ ManualKill
    \/ ManualStart
    \/ Exit130
    \/ AfterEncode
    \/ RestartCommandStop
    \/ RestartCommandStart
    \/ RestartTimedStop
    \/ RestartTimedStart
    \/ Recover
    \/ PollTick
    \/ EncoderExit
    \/ RelayExit
    \/ ConnectionChecked
    \/ PollExit
    \/ CheckFile
    \/ PlayItem
    \/ PrepareLaunch
    \/ EncoderStart
    \/ ScheduleThreadBegin
    \/ ScheduleThreadEnd
    \/ Walk
    \/ WriteIndexThread
    \/ LoopTop
    \/ AfterClip

(***************************************************************************)
(* mail.py: the alert dispatcher EMailDaemon.  Its time is counted in      *)
(* ticks of half an hour, so that the one-hour interval of                 *)
(* _send_email_if_allowed is MailHour ticks.  The test reads only the      *)
(* difference current_time - last_sent[alert_type], so last_sent keeps     *)
(* that difference: the ticks since the recorded time, counted up to       *)
(* MailHour.  The queue holds maxsize items and retry_delay doubles up to  *)
(* retry_delay_max (10 and 128 in mail.py, fewer here).                    *)
(***************************************************************************)
MailHour == 2           \* datetime.timedelta(hours=1), in ticks
maxsize == 4            \* queue.PriorityQueue(maxsize=10)
retry_delay_max == 4    \* self.retry_delay_max = 128

\* mail.py, lines 266-360: the priority column of alert_types
alert_types == [ stream_down |-> 0, stream_resume |-> 10, file_not_found |-> 0 ]

AlertTypes == DOMAIN alert_types

\* The add_alert calls of the program, with the keyword arguments they pass.
AlertCall(t, b, u) == [alert_type |-> t, bypass_interval |-> b, urgent |-> u]

AlertCalls ==
    { AlertCall("file_not_found", FALSE, FALSE),    \* main.py 575, 608, 1151
      AlertCall("stream_resume", TRUE, FALSE),      \* main.py 1028
      AlertCall("stream_down", TRUE, TRUE) }        \* main.py 1196

\* mail.py, lines 19-22: only priority takes part in comparisons.  seq is
\* history: a put numbers its item above every item then in the queue and
\* the numbers are kept 1..n, so seq is the rank of the item among the
\* queued items in the order in which they were added.
PrioritizedItem(priority, t, b, seq) ==
    [priority |-> priority, alert_type |-> t, bypass_interval |-> b, seq |-> seq]

NoItem == PrioritizedItem(0, "none", FALSE, 0)

RECURSIVE MaxSeq(_)
MaxSeq(heap) == IF heap = << >> THEN 0 ELSE Max(Head(heap).seq, MaxSeq(Tail(heap)))

NextSeq(heap) == MaxSeq(heap) + 1

Renumber(heap) ==
    [ i \in 1..Len(heap) |->
        [heap[i] EXCEPT !.seq = Cardinality({ j \in 1..Len(heap) : heap[j].seq <= heap[i].seq })] ]

\* dataclass(order=True) with item compare=False: a < b
Less(a, b) == a.priority < b.priority

(***************************************************************************)
(* heapq, as used by queue.PriorityQueue._put and _get.  Positions are     *)
(* Python's, counted from 0; heap[pos + 1] is the element at pos.          *)
(***************************************************************************)
RECURSIVE siftdown(_, _, _, _)
siftdown(heap, startpos, pos, newitem) ==
    IF pos > startpos
    THEN LET parentpos == (pos - 1) \div 2
             parent == heap[parentpos + 1]
         IN  IF Less(newitem, parent)
             THEN siftdown([heap EXCEPT ![pos + 1] = parent], startpos, parentpos, newitem)
             ELSE [heap EXCEPT ![pos + 1] = newitem]
    ELSE [heap EXCEPT ![pos + 1] = newitem]

RECURSIVE siftup_loop(_, _, _, _)
siftup_loop(heap, pos, newitem, startpos) ==
    LET endpos == Len(heap)
        left == 2 * pos + 1
        rightpos == left + 1
        childpos == IF rightpos < endpos /\ ~Less(heap[left + 1], heap[rightpos + 1])
                    THEN rightpos ELSE left
    IN  IF left < endpos
        THEN siftup_loop([heap EXCEPT ![pos + 1] = heap[childpos + 1]], childpos,
                         newitem, startpos)
        ELSE siftdown([heap EXCEPT ![pos + 1] = newitem], startpos, pos, newitem)

siftup(heap, pos) == siftup_loop(heap, pos, heap[pos + 1], pos)

heappush(heap, item) == siftdown(Append(heap, item), 0, Len(heap), item)

\* heappop: the item returned, and the heap left
heappop_item(heap) == heap[1]

heappop_rest(heap) ==
    LET lastelt == heap[Len(heap)]
        rest == SubSeq(heap, 1, Len(heap) - 1)
    IN  IF rest = << >> THEN rest ELSE siftup([rest EXCEPT ![1] = lastelt], 0)

\* A displacing queue: on overflow the oldest item of priority above 0
\* makes room for an incoming item of priority 0.
put_nowait_displace(heap, item) ==
    LET others == { i \in 1..Len(heap) : heap[i].priority > 0 }
        oldest == CHOOSE i \in others : \A j \in others : heap[i].seq <= heap[j].seq
        kept == [ k \in 1..(Len(heap) - 1) |-> IF k < oldest THEN heap[k] ELSE heap[k + 1] ]
    IN  IF Len(heap) < maxsize THEN [full |-> FALSE, heap |-> heappush(heap, item)]
        ELSE IF item.priority = 0 /\ others # {}
             THEN [full |-> FALSE, heap |-> heappush(kept, item)]
             ELSE [full |-> TRUE, heap |-> heap]

\* queue.PriorityQueue.put_nowait: raises queue.Full when maxsize items are held
put_nowait(heap, item) ==
    IF Len(heap) >= maxsize
    THEN [full |-> TRUE, heap |-> heap]
    ELSE [full |-> FALSE, heap |-> heappush(heap, item)]

NoMailStep == [kind |-> "none", alert |-> NoItem, prev |-> -1, log |-> "none"]

\* What the last step did, when it sent a message or wrote an error to the
\* log: the alert, and for a send the ticks since the last send of its type.
MailStep(kind, alert, prev, log) ==
    [kind |-> kind, alert |-> [alert EXCEPT !.seq = 0], prev |-> prev, log |-> log]

\* The worker at the top of the loop of run()
Waiting == [pc |-> "get", item |-> NoItem]

\* mail.py, lines 29-56: EMailDaemon.__init__
MailInit ==
    /\ queue = << >>
    /\ last_sent = [t \in AlertTypes |-> -1]
    /\ lock = "free"
    /\ running = TRUE
    /\ retry_delay = 1
    /\ worker = Waiting
    /\ caller = "run"
    /\ sends = [t \in AlertTypes |-> -1]
    /\ mstep = NoMailStep

\* mail.py, lines 59-61: the loop test and queue.get()
WorkerGet ==
    /\ worker.pc = "get"
    /\ running
    /\ queue # << >>
    /\ worker' = [pc |-> "send", item |-> [heappop_item(queue) EXCEPT !.seq = 0]]
    /\ queue' = Renumber(heappop_rest(queue))
    /\ mstep' = NoMailStep
    /\ UNCHANGED <<last_sent, lock, running, retry_delay, caller, sends>>

\* mail.py, line 59: the loop ends once running is False
WorkerExit ==
    /\ worker.pc = "get"
    /\ ~running
    /\ worker' = [worker EXCEPT !.pc = "stopped"]
    /\ mstep' = NoMailStep
    /\ UNCHANGED <<queue, last_sent, lock, running, retry_delay, caller, sends>>

\* mail.py, lines 131-136: the interval test of _send_email_if_allowed.
\* An absent entry reads as datetime.min.
Allowed(item) ==
    \/ item.bypass_interval
    \/ last_sent[item.alert_type] = -1
    \/ last_sent[item.alert_type] >= MailHour

\* _send_email, lines 162-216: sent, failed after the retries, or refused
\* authentication
SendOutcomes == {"sent", "failed", "auth"}

\* mail.py, lines 128-160 and 62-63, 81: _send_email_if_allowed under the
\* lock, then the rest of the loop body when it returned True.
WorkerSend ==
    /\ worker.pc = "send"
    /\ lock = "free"
    /\ LET item == worker.item
           t == item.alert_type
       IN  IF Allowed(item)
           THEN \E outcome \in SendOutcomes :
                  \/ /\ outcome = "sent"
                     /\ last_sent' = [last_sent EXCEPT ![t] = 0]
                     /\ sends' = [sends EXCEPT ![t] = 0]
                     /\ retry_delay' = 1
                     /\ worker' = Waiting
                     /\ mstep' = MailStep("sent", item, sends[t], "Sent e-mail")
                     /\ UNCHANGED <<lock, running>>
                  \/ /\ outcome = "failed"
                     /\ worker' = [worker EXCEPT !.pc = "requeue"]
                     /\ mstep' = NoMailStep
                     /\ UNCHANGED <<last_sent, sends, retry_delay, lock, running>>
                  \/ \* line 195: self.stop() while this thread holds _lock
                     /\ outcome = "auth"
                     /\ running' = FALSE
                     /\ lock' = "worker"
                     /\ worker' = [worker EXCEPT !.pc = "blocked"]
                     /\ mstep' = MailStep("auth", item, -1,
                                          "Mail features disabled")
                     /\ UNCHANGED <<last_sent, sends, retry_delay>>
           ELSE /\ retry_delay' = 1
                /\ worker' = Waiting
                /\ mstep' = NoMailStep
                /\ UNCHANGED <<last_sent, sends, lock, running>>
    /\ UNCHANGED <<queue, caller>>

\* mail.py, lines 64-77: the message goes back with priority 1, then the
\* worker sleeps retry_delay and doubles it.  queue.Full is not caught.
WorkerRequeue ==
    /\ worker.pc = "requeue"
    /\ lock = "free"
    /\ LET item == PrioritizedItem(1, worker.item.alert_type,
                                   worker.item.bypass_interval, NextSeq(queue))
           put == put_nowait(queue, item)
       IN  IF put.full
           THEN /\ worker' = [pc |-> "dead", item |-> NoItem]
                /\ mstep' = MailStep("raised", item, -1, "queue.Full")
                /\ UNCHANGED <<queue, retry_delay>>
           ELSE /\ queue' = put.heap
                /\ retry_delay' = Min(retry_delay * 2, retry_delay_max)
                /\ worker' = Waiting
                /\ mstep' = NoMailStep
    /\ UNCHANGED <<last_sent, lock, running, caller, sends>>

\* mail.py, lines 242-244 and 362-414: add_alert.  A caller that finds the
\* lock held by a thread that never releases it waits for good.
AddAlert ==
    /\ caller = "run"
    /\ \E call \in AlertCalls :
         LET t == call.alert_type
             item == PrioritizedItem(alert_types[t], t, call.bypass_interval,
                                     NextSeq(queue))
             put == put_nowait(queue, item)
         IN  IF ~running
             THEN /\ mstep' = NoMailStep
                  /\ UNCHANGED <<queue, last_sent, lock, running, caller, sends>>
             ELSE IF lock # "free"
             THEN /\ caller' = "blocked"
                  /\ mstep' = NoMailStep
                  /\ UNCHANGED <<queue, last_sent, lock, running, sends>>
             ELSE IF ~call.urgent
             THEN /\ queue' = put.heap
                  /\ mstep' = IF put.full
                              THEN MailStep("discarded", item, -1,
                                            "E-mail alert queue is full")
                              ELSE NoMailStep
                  /\ UNCHANGED <<last_sent, lock, running, caller, sends>>
             ELSE \E outcome \in SendOutcomes :
                  /\ queue' = queue
                  /\ \/ /\ outcome = "sent"
                        /\ last_sent' = [last_sent EXCEPT ![t] = 0]
                        /\ sends' = [sends EXCEPT ![t] = 0]
                        /\ mstep' = MailStep("urgent", item, sends[t], "Sent e-mail")
                        /\ UNCHANGED <<lock, running, caller>>
                     \/ /\ outcome = "failed"
                        /\ mstep' = NoMailStep
                        /\ UNCHANGED <<last_sent, sends, lock, running, caller>>
                     \/ /\ outcome = "auth"
                        /\ running' = FALSE
                        /\ lock' = "supervisor"
                        /\ caller' = "blocked"
                        /\ mstep' = MailStep("auth", item, -1,
                                             "Mail features disabled")
                        /\ UNCHANGED <<last_sent, sends>>
    /\ UNCHANGED <<retry_delay, worker>>

\* mail.py, lines 461-464 and 83-91, called at main.py 1287: stop()
Stop ==
    /\ caller = "run"
    /\ running' = FALSE
    /\ IF lock = "free"
       THEN /\ queue' = << >>
            /\ last_sent' = [t \in AlertTypes |-> -1]
            /\ caller' = "joining"
       ELSE /\ caller' = "blocked"
            /\ UNCHANGED <<queue, last_sent>>
    /\ mstep' = NoMailStep
    /\ UNCHANGED <<lock, retry_delay, worker, sends>>

\* mail.py, line 464: self.thread.join() returns once run() has returned
Joined ==
    /\ caller = "joining"
    /\ worker.pc \in {"stopped", "dead"}
    /\ caller' = "stopped"
    /\ mstep' = NoMailStep
    /\ UNCHANGED <<queue, last_sent, lock, running, retry_delay, worker, sends>>

\* The ticks since a recorded time, one tick later
Later(times) ==
    [ t \in AlertTypes |-> IF times[t] = -1 THEN -1 ELSE Min(times[t] + 1, MailHour) ]

\* Half an hour passes.  A send, with its SMTP timeout of 10 s and 3
\* attempts (mail.py 45, 162), is over well within a tick.
MailTick ==
    /\ worker.pc \in {"get", "stopped", "dead", "blocked"}
    /\ Later(sends) # sends
    /\ last_sent' = Later(last_sent)
    /\ sends' = Later(sends)
    /\ mstep' = NoMailStep
    /\ UNCHANGED <<queue, lock, running, retry_delay, worker, caller>>

MailNext ==
    \/ AddAlert
    \/ Stop
    \/ Joined
    \/ WorkerGet
    \/ WorkerExit
    \/ WorkerSend
    \/ WorkerRequeue
    \/ MailTick

(***************************************************************************)
(* playlist.py: write_schedule.  A call runs in a thread of its own, and   *)
(* main() starts one only when the previous one is done (main.py 988-1013),*)
(* so the calls of one process follow one another.  Each is one step.      *)
(* Records of coming_up_next and previous_files carry type, name (the      *)
(* playlist line), unixtime and length; time is the string of unixtime.    *)
(* The schedule written is uploaded when REMOTE_ADDRESS is set, and the    *)
(* upload adds alerts when the dispatcher runs.                            *)
(***************************************************************************)
MaxUtc == 6         \* ticks of wall clock in which schedules are written

JsonRecord(t, name, unixtime, length) ==
    [type |-> t, name |-> name, unixtime |-> unixtime, length |-> length]

\* get_stream_restart_duration(): both clips with padding, and the wait.
get_stream_restart_duration(c) ==
    (IF c.STREAM_RESTART_BEFORE_VIDEO > 0
        THEN c.STREAM_RESTART_BEFORE_VIDEO + c.VIDEO_PADDING ELSE 0)
    + (IF c.STREAM_RESTART_AFTER_VIDEO > 0
        THEN c.STREAM_RESTART_AFTER_VIDEO + c.VIDEO_PADDING ELSE 0)
    + c.STREAM_RESTART_WAIT

\* iter_playlist(list_sub, index_sub): the position in list_sub (from 1) of
\* the n-th value yielded: list_sub[index_sub:], then the whole list cycled.
iter_playlist(list_sub, index_sub, n) ==
    IF n <= Len(list_sub) - index_sub
        THEN index_sub + n
        ELSE ((n - (Len(list_sub) - index_sub) - 1) % Len(list_sub)) + 1

\* Lines 352-365: the extra entries passed in, before the current video.
ExtraRecords(extra_entries) ==
    [ i \in 1..Len(SelectSeq(extra_entries, LAMBDA e : e.type = "extra")) |->
        JsonRecord("extra", 0, 0, 0) ]

\* For each record of coming_up_next, what lay before it since the previous
\* normal record: the excluded items' lengths with padding, each once, and
\* the duration of a restart simulated at lines 539-544.
NoTrail == [excluded |-> 0, restart |-> 0]

\* Lines 321-397: the locals of write_schedule when its loop begins.
FirstEntry(c, entry_index, elapsed_time, stream_time_remaining, extra_entries, start_time) ==
    LET el == IF elapsed_time < c.REWIND_LENGTH THEN 0 ELSE elapsed_time
        entry == c.MEDIA_PLAYLIST[entry_index + 1]
        entry_length == entry.length + (0 - el) + c.VIDEO_PADDING
        restart == stream_time_remaining >= c.STREAM_TIME_BEFORE_RESTART
        extras == ExtraRecords(extra_entries)
    IN  [ status |-> "loop",
          coming_up_next_json |->
              Append(extras, JsonRecord("normal", entry_index + 1, start_time,
                                        entry.length)),
          trail |-> [ i \in 1..(Len(extras) + 1) |-> NoTrail ],
          excluded |-> 0,
          normals |-> 0,
          current_schedule_time |-> start_time + entry_length,
          length_offset |->
              IF restart THEN get_stream_restart_duration(c) ELSE 0,
          total_duration |-> entry_length,
          stream_duration |->
              (IF restart THEN 0 ELSE stream_time_remaining) + entry_length,
          skipped_normal_entries |-> 0 ]

\* Lines 501-534: the entry is left out, its length carried forward.
SkipEntry(c, st, entry) ==
    LET entry_length == entry.length + c.VIDEO_PADDING
        length_offset == st.length_offset + entry_length
    IN  [ st EXCEPT
            !.normals = @ + 1,
            !.excluded = @ + entry_length,
            !.length_offset = length_offset,
            !.total_duration = @ + entry_length,
            !.stream_duration = @ + entry_length,
            !.current_schedule_time = @ + length_offset,
            !.skipped_normal_entries = @ + 1 ]

\* Lines 536-572: the entry is added, after a simulated restart if it
\* would run over STREAM_TIME_BEFORE_RESTART.
AddEntry(c, st, line, entry) ==
    LET restart == st.stream_duration + entry.length + c.VIDEO_PADDING
                       >= c.STREAM_TIME_BEFORE_RESTART
        length_offset == IF restart THEN get_stream_restart_duration(c) ELSE 0
        at == st.current_schedule_time + length_offset
        entry_length == entry.length + c.VIDEO_PADDING
    IN  [ st EXCEPT
            !.normals = @ + 1,
            !.coming_up_next_json =
                Append(@, JsonRecord("normal", line, at, entry.length)),
            !.trail = Append(@, [excluded |-> st.excluded,
                                 restart |-> length_offset]),
            !.excluded = 0,
            !.length_offset = length_offset,
            !.total_duration = @ + entry_length,
            !.stream_duration = (IF restart THEN 0 ELSE @) + entry_length,
            !.current_schedule_time = at + entry_length ]

\* Line 514 reads config.SCHEDULE_MIN_VIDEO_LENGTH.  config.py assigns no
\* such name (its Schedule settings are lines 221-270), so the read raises
\* AttributeError and the thread ends there; the future keeps the exception
\* and main() never asks for it.
NoSetting == [defined |-> FALSE, value |-> 0]

\* Lines 407-611: the loop over the playlist from the entry after the
\* current one, n counting the values taken from iter_playlist.
RECURSIVE schedule_loop(_, _, _, _)
schedule_loop(c, entry_index, st, n) ==
    LET line == iter_playlist(c.MEDIA_PLAYLIST, entry_index, n)
        entry == c.MEDIA_PLAYLIST[line]
        Continue(s) == schedule_loop(c, entry_index, s, n + 1)
    IN  IF /\ st.normals >= c.SCHEDULE_MIN_VIDEOS
           /\ \/ st.normals >= c.SCHEDULE_MAX_VIDEOS + st.skipped_normal_entries
              \/ st.total_duration > c.SCHEDULE_UPCOMING_LENGTH
        THEN [st EXCEPT !.status = "done"]
        ELSE CASE entry.type = "blank" -> Continue(st)
               [] entry.type = "normal" ->
                    IF entry.file # "present"
                    THEN Continue(st)
                    ELSE IF ~c.SCHEDULE_MIN_VIDEO_LENGTH.defined
                    THEN [st EXCEPT !.status = "AttributeError",
                                    !.normals = @ + 1]
                    ELSE IF \/ c.SCHEDULE_EXCLUDE_FILE_PATTERN /\ entry.excluded
                            \/ entry.length < c.SCHEDULE_MIN_VIDEO_LENGTH.value
                    THEN Continue(SkipEntry(c, st, entry))
                    ELSE Continue(AddEntry(c, st, line, entry))
               [] entry.type = "extra" ->
                    Continue([st EXCEPT
                        !.coming_up_next_json =
                            Append(@, JsonRecord("extra", 0, 0, 0)),
                        !.trail = Append(@, NoTrail)])
               [] entry.type = "command" ->
                    CASE entry.info = "RESTART" ->
                           Continue([st EXCEPT !.length_offset =
                                         get_stream_restart_duration(c)])
                      [] entry.info = "INSTANT_RESTART" ->
                           Continue([st EXCEPT !.length_offset =
                                         c.STREAM_RESTART_WAIT])
                      [] entry.info \in {"MAIL", "EXCEPTION"} -> Continue(st)
                      [] entry.info = "STOP" -> [st EXCEPT !.status = "done"]
                      [] OTHER -> [st EXCEPT !.status = "ValueError"]

\* Lines 644-651: pop left from recent_playlist and append to previous_files
\* until a normal entry has been appended.
RECURSIVE MoveRecent(_, _)
MoveRecent(previous, recent) ==
    IF Head(recent).type # "normal"
        THEN MoveRecent(Append(previous, Head(recent)), Tail(recent))
        ELSE Append(previous, Head(recent))

\* Line 660: sum(i["type"] == "normal" for i in stats.previous_files)
Normals(files) == Cardinality({ i \in DOMAIN files : files[i].type = "normal" })

\* Lines 664-666: pop the entries before the first normal one, and it.
RECURSIVE PopNormal(_)
PopNormal(files) ==
    IF Head(files).type # "normal" THEN PopNormal(Tail(files)) ELSE Tail(files)

\* Lines 663-667: while the normal records are more than the maximum.
RECURSIVE PruneCount(_, _)
PruneCount(c, files) ==
    IF Normals(files) > c.SCHEDULE_PREVIOUS_MAX_VIDEOS
        THEN PruneCount(c, PopNormal(files))
        ELSE files

\* Lines 670-700: the count of leading records older than
\* SCHEDULE_PREVIOUS_LENGTH, from 0 in tight mode and from -1 otherwise.
RECURSIVE FilesToPrune(_, _, _, _, _)
FilesToPrune(c, files, i, files_to_prune, start_time) ==
    IF i > Len(files) THEN files_to_prune
    ELSE IF files[i].unixtime = 0
    THEN FilesToPrune(c, files, i + 1, files_to_prune, start_time)
    ELSE IF /\ start_time - files[i].unixtime > c.SCHEDULE_PREVIOUS_LENGTH
            /\ Len(files) - files_to_prune > c.SCHEDULE_PREVIOUS_MIN_VIDEOS
    THEN FilesToPrune(c, files, i + 1, files_to_prune + 1, start_time)
    ELSE files_to_prune

\* Lines 702-710 without the test against SCHEDULE_PREVIOUS_MIN_VIDEOS.
RECURSIVE PruneAge_all(_, _, _, _)
PruneAge_all(c, files, total_normal_previous_files, files_to_prune) ==
    IF files_to_prune > 0 /\ files # << >>
    THEN IF Head(files).type = "normal"
         THEN PruneAge_all(c, Tail(files), total_normal_previous_files - 1,
                           files_to_prune - 1)
         ELSE PruneAge_all(c, Tail(files), total_normal_previous_files,
                           files_to_prune)
    ELSE files

\* Lines 702-710: pop left while more than the minimum are left and there
\* are files to prune; only a normal record counts as pruned.
RECURSIVE PruneAge(_, _, _, _)
PruneAge(c, files, total_normal_previous_files, files_to_prune) ==
    IF /\ total_normal_previous_files > c.SCHEDULE_PREVIOUS_MIN_VIDEOS
       /\ files_to_prune > 0
    THEN IF Head(files).type = "normal"
         THEN PruneAge(c, Tail(files), total_normal_previous_files - 1,
                       files_to_prune - 1)
         ELSE PruneAge(c, Tail(files), total_normal_previous_files,
                       files_to_prune)
    ELSE files

\* Lines 640-643: previous_files is changed unless its last record is the
\* first of recent_playlist.
UpdatesPrevious(previous, recent, ignore_previous_files) ==
    /\ ~ignore_previous_files
    /\ Len(recent) > 0
    /\ previous = << >> \/ previous[Len(previous)] # recent[1]

\* Lines 629-711: stats.previous_files after the call.
update_previous_files(c, previous, recent, ignore_previous_files, start_time) ==
    IF ~UpdatesPrevious(previous, recent, ignore_previous_files)
    THEN previous
    ELSE LET counted == PruneCount(c, MoveRecent(previous, recent))
             total == Normals(counted)
         IN  IF total > c.SCHEDULE_PREVIOUS_MIN_VIDEOS
             THEN PruneAge(c, counted, total,
                      FilesToPrune(c, counted, 1,
                          IF c.SCHEDULE_PREVIOUS_PRUNE_TIGHT THEN 0 ELSE 0 - 1,
                          start_time))
             ELSE counted

NoSchedule == [coming_up_next |-> << >>, previous_files |-> << >>]

\* playlist.py 742-755: the locals of the upload part of write_schedule
\* before its loop; attempts and sleeps are history: the upload_ssh calls
\* made and the timeouts of the sleep_event.wait calls, alerts the add_alert
\* calls of lines 818-842.
NoUpload ==
    [ upload_attempts_remaining |-> 0, upload_retry_delay |-> 1,
      ssh_result |-> "None", ssh_exceptions |-> 0,
      attempts |-> 0, sleeps |-> << >>, alerts |-> << >> ]

NoWrite ==
    [ kind |-> "none", status |-> "none", entry |-> 0, updated |-> FALSE,
      normals_before |-> 0, trail |-> << >>, upload |-> NoUpload ]

\* StreamStats.__init__, lines 128-134, and main() before its first item;
\* utc is the wall clock.
SchedInit ==
    /\ recent_playlist = << >>
    /\ previous_files = << >>
    /\ schedule_json = NoSchedule
    /\ utc = 1
    /\ play = [index |-> -1, fresh |-> FALSE, stopped |-> FALSE]
    /\ REMOTE_ADDRESS = cfg.REMOTE_ADDRESS
    /\ wstep = NoWrite

\* main.py 1149-1171 and 979-987: an item main() plays and writes a schedule
\* for is a normal entry whose file is there and whose name does not match
\* SCHEDULE_EXCLUDE_FILE_PATTERN.
Playable(c, i) ==
    /\ c.MEDIA_PLAYLIST[i + 1].type = "normal"
    /\ c.MEDIA_PLAYLIST[i + 1].file = "present"
    /\ ~(c.SCHEDULE_EXCLUDE_FILE_PATTERN /\ c.MEDIA_PLAYLIST[i + 1].excluded)

\* main.py 650-887: the walk from the entry after index i to the next item
\* played, wrapping at the end of the playlist; -1 when %STOP comes first.
RECURSIVE NextPlayable(_, _, _)
NextPlayable(c, i, fuel) ==
    LET j == (i + 1) % Len(c.MEDIA_PLAYLIST)
    IN  IF fuel = 0 THEN -1
        ELSE IF c.MEDIA_PLAYLIST[j + 1] = CommandEntry("STOP") THEN -1
        ELSE IF Playable(c, j) THEN j
        ELSE NextPlayable(c, j, fuel - 1)

\* main.py 650-660: the extra entries passed over on the way to item i.
RECURSIVE ExtrasBefore(_, _)
ExtrasBefore(c, i) ==
    IF i = 0 \/ c.MEDIA_PLAYLIST[i].type \in {"normal", "command"} THEN << >>
    ELSE IF c.MEDIA_PLAYLIST[i].type = "extra"
    THEN Append(ExtrasBefore(c, i - 1), c.MEDIA_PLAYLIST[i])
    ELSE ExtrasBefore(c, i - 1)

\* main(): the loop comes to the next item to play, or to %STOP and exits.
NextItem ==
    /\ ~play.stopped
    /\ LET j == NextPlayable(cfg, play.index, Len(cfg.MEDIA_PLAYLIST))
       IN  play' = IF j = -1
                   THEN [play EXCEPT !.stopped = TRUE, !.fresh = FALSE]
                   ELSE [index |-> j, fresh |-> TRUE, stopped |-> FALSE]
    /\ wstep' = NoWrite
    /\ UNCHANGED <<recent_playlist, previous_files, schedule_json, utc,
                   REMOTE_ADDRESS>>

\* The wall clock advances.
SchedTick ==
    /\ utc < MaxUtc
    /\ utc' = utc + 1
    /\ wstep' = NoWrite
    /\ UNCHANGED <<recent_playlist, previous_files, schedule_json, play,
                   REMOTE_ADDRESS>>

\* config.py 374-376 and 411: MAIL_ALERT_MAX_ERRORS_REPORTED, the maxlen of
\* the ssh_exceptions deque.
MAIL_ALERT_MAX_ERRORS_REPORTED == 1

\* playlist.py 745
upload_retry_max_delay == 64

\* playlist.py 848-867 and 767-769: what upload_ssh().result(timeout=10)
\* hands back to the assignment of err.  upload_ssh has no return statement,
\* so a call that succeeds gives None; a call that fails, or that is not
\* done in ten seconds, raises from result() and err keeps the None of
\* line 766.
err(outcome) == "None"

\* playlist.py 800-816, the finally clause of one pass that did not
\* succeed: the sleep and the doubling of the delay, when err is set.
upload_finally(u, outcome) ==
    IF err(outcome) # "None" /\ u.upload_attempts_remaining # 0
    THEN [u EXCEPT !.sleeps = Append(@, u.upload_retry_delay),
                   !.upload_retry_delay = Min(u.upload_retry_delay * 2,
                                              upload_retry_max_delay)]
    ELSE u

\* playlist.py 757-816: the upload loop; outcomes[k] is how the k-th
\* upload_ssh call ends: "ok", "auth" for the three authentication
\* exceptions, "timeout" and "error" for the others.
RECURSIVE upload_loop(_, _, _)
upload_loop(u, outcomes, k) ==
    IF u.upload_attempts_remaining = 0 \/ k > Len(outcomes) THEN u
    ELSE LET a == [u EXCEPT !.attempts = @ + 1,
                            !.upload_attempts_remaining =
                                IF @ > 0 THEN @ - 1 ELSE @]
         IN  IF outcomes[k] = "ok"
             THEN [a EXCEPT !.ssh_result = "True"]
             ELSE LET logged ==
                          [a EXCEPT !.ssh_exceptions =
                               Min(@ + 1, MAIL_ALERT_MAX_ERRORS_REPORTED)]
                  IN  IF outcomes[k] = "auth"
                      THEN [logged EXCEPT !.upload_attempts_remaining = 0,
                                          !.ssh_result = "False"]
                      ELSE upload_loop(upload_finally(logged, outcomes[k]),
                                       outcomes, k + 1)

\* config.py 371-372 and playlist.py 823-841: MAIL_ALERT_ON_REMOTE_ERROR is
\* read with getboolean, and compared as the integer a bool is.
remote_error_level(c) == IF c.MAIL_ALERT_ON_REMOTE_ERROR THEN 1 ELSE 0

\* playlist.py 818-842: the alerts added for the exceptions logged.
upload_alerts(c, u) ==
    IF /\ u.ssh_exceptions > 0
       /\ mail_daemon_running
       /\ remote_error_level(c) > 0
    THEN IF u.ssh_result = "None" /\ remote_error_level(c) >= 1
         THEN << Alert("remote_error", FALSE, NoTime) >>
         ELSE IF u.ssh_result # "True" /\ remote_error_level(c) >= 1
         THEN << Alert("remote_auth_failed", FALSE, NoTime) >>
         ELSE IF u.ssh_result = "True" /\ remote_error_level(c) >= 2
         THEN << Alert("remote_success_after_error", FALSE, NoTime) >>
         ELSE << >>
    ELSE << >>

\* playlist.py 736-842: the upload of the schedule written, when
\* REMOTE_ADDRESS is set.
upload(c, address, outcomes) ==
    IF address = "None" THEN NoUpload
    ELSE LET u == upload_loop(
                      [NoUpload EXCEPT !.upload_attempts_remaining =
                                           c.REMOTE_UPLOAD_ATTEMPTS],
                      outcomes, 1)
         IN  [u EXCEPT !.alerts = upload_alerts(c, u)]

\* playlist.py 838-840: REMOTE_ADDRESS is cleared where the
\* remote_auth_failed alert is added.
AddressAfter(address, u) ==
    IF Count(u.alerts, "remote_auth_failed") > 0 THEN "None" ELSE address

\* k calls that fail, by an error or by the timeout in turn
RECURSIVE Failures(_)
Failures(k) ==
    IF k = 0 THEN << >>
    ELSE Append(Failures(k - 1), IF k % 2 = 1 THEN "error" ELSE "timeout")

\* How the upload_ssh calls of one write_schedule call can end: some
\* failures, and then a success, an authentication failure, or nothing
\* more when the attempts are used up.
Outcomes(c, address) ==
    IF address = "None" THEN { << >> }
    ELSE { Failures(k) \o last :
             k \in 0..(c.REMOTE_UPLOAD_ATTEMPTS - 1),
             last \in { << "ok" >>, << "auth" >> } }
             \cup { Failures(c.REMOTE_UPLOAD_ATTEMPTS) }

\* main.py 1007-1013 and write_schedule, lines 321-842: the call for the
\* item being started, the first time with the extra entries passed over,
\* and again when the item is started again: after a failure with retried
\* set (main.py 1084, 1208, 1233), which is passed as ignore_previous_files,
\* or with retried cleared by a time-based restart in between (main.py
\* 1115-1147, 578-614).  elapsed_time and stream_time_remaining are what
\* stats holds at the call.
WriteSchedule ==
    /\ play.index >= 0 /\ ~play.stopped
    /\ \E retried \in (IF play.fresh THEN {FALSE} ELSE BOOLEAN),
          elapsed_time \in {0, cfg.REWIND_LENGTH},
          stream_time_remaining \in {0, cfg.STREAM_TIME_BEFORE_RESTART},
          outcomes \in Outcomes(cfg, REMOTE_ADDRESS) :
          LET extra_entries ==
                  IF play.fresh THEN ExtrasBefore(cfg, play.index) ELSE << >>
              st == schedule_loop(cfg, play.index,
                        FirstEntry(cfg, play.index, elapsed_time,
                                   stream_time_remaining, extra_entries, utc),
                        2)
              previous == update_previous_files(cfg, previous_files,
                              recent_playlist, retried, utc)
              u == upload(cfg, REMOTE_ADDRESS, outcomes)
          IN  IF st.status = "done"
              THEN /\ previous_files' = previous
                   /\ REMOTE_ADDRESS' = AddressAfter(REMOTE_ADDRESS, u)
                   /\ recent_playlist' = st.coming_up_next_json
                   /\ schedule_json' =
                          [ coming_up_next |-> st.coming_up_next_json,
                            previous_files |-> previous ]
                   /\ wstep' =
                          [ kind |-> "write_schedule", status |-> st.status,
                            entry |-> play.index + 1,
                            updated |-> UpdatesPrevious(previous_files,
                                            recent_playlist, retried),
                            normals_before |-> Normals(previous_files),
                            trail |-> st.trail, upload |-> u ]
              ELSE /\ wstep' = [NoWrite EXCEPT !.kind = "write_schedule",
                                               !.status = st.status,
                                               !.entry = play.index + 1]
                   /\ UNCHANGED <<recent_playlist, previous_files,
                                  schedule_json, REMOTE_ADDRESS>>
    /\ play' = [play EXCEPT !.fresh = FALSE]
    /\ UNCHANGED utc

\* config.py 221-258: the Schedule settings, added to the settings record.
\* config.py assigns no SCHEDULE_MIN_VIDEO_LENGTH.
ScheduleSettings(c, mn, mx, len, tight) ==
    c @@ [ SCHEDULE_MIN_VIDEOS |-> 1,
           SCHEDULE_MAX_VIDEOS |-> 2,
           SCHEDULE_UPCOMING_LENGTH |-> 8,
           SCHEDULE_MIN_VIDEO_LENGTH |-> NoSetting,
           SCHEDULE_PREVIOUS_MIN_VIDEOS |-> mn,
           SCHEDULE_PREVIOUS_MAX_VIDEOS |-> mx,
           SCHEDULE_PREVIOUS_LENGTH |-> len,
           SCHEDULE_PREVIOUS_PRUNE_TIGHT |-> tight ]

Listed == [Plain EXCEPT !.SCHED = TRUE, !.PATTERN = TRUE, !.STBR = 4]
ListedToStop == [Listed EXCEPT !.STOP = TRUE, !.BEFORE = 1, !.PAD = 1]

\* The playlists the schedule is written for.
SchedScenarios ==
    { << ListedToStop, << ExtraEntry, NormalEntry(2) >> >>,
      << ListedToStop, << NormalEntry(2), MissingEntry(3), BlankEntry,
                          CommandEntry("RESTART") >> >>,
      << ListedToStop, << NormalEntry(3), ExtraEntry, NormalEntry(2) >> >>,
      << ListedToStop, << NormalEntry(2), CommandEntry("RESTART"), NormalEntry(1),
                          CommandEntry("INSTANT_RESTART"), NormalEntry(2) >> >>,
      << Listed, << NormalEntry(2), ExcludedEntry(1), ExcludedEntry(1),
                    NormalEntry(3) >> >> }

\* config.py 598-603 and streamstats.py 129-134: previous_files is kept when
\* 1 <= SCHEDULE_PREVIOUS_MIN_VIDEOS <= SCHEDULE_PREVIOUS_MAX_VIDEOS and
\* SCHEDULE_PREVIOUS_LENGTH >= 1.
PreviousSettings == { <<1, 1>>, <<1, 2>>, <<2, 2>>, <<2, 3>> }

SchedConfigs ==
    { ScheduleSettings(Config(sc[1], 1, 1, sc[2]), pv[1], pv[2], len, tight) :
        sc \in SchedScenarios, pv \in PreviousSettings, len \in 1..2,
        tight \in BOOLEAN }

\* config.py 280-322 and 338-372: a schedule uploaded in up to
\* REMOTE_UPLOAD_ATTEMPTS attempts, with the dispatcher off, and with it on
\* and MAIL_ALERT_ON_REMOTE_ERROR either way.
Uploaded(c, mail, alert) ==
    [c EXCEPT !.REMOTE_ADDRESS = "host",
              !.REMOTE_UPLOAD_ATTEMPTS = MaxUploadAttempts,
              !.MAIL_ENABLE = mail,
              !.MAIL_ALERT_ON_REMOTE_ERROR = alert]

UploadConfigs ==
    { Uploaded(ScheduleSettings(Config(sc[1], 1, 1, sc[2]), 1, 2, 2, FALSE),
               ma[1], ma[2]) :
        sc \in SchedScenarios,
        ma \in { <<FALSE, FALSE>>, <<TRUE, FALSE>>, <<TRUE, TRUE>> } }

(***************************************************************************)
(* config.py: print2.  A line printed is its label and its message; the    *)
(* time stamp that leads it is left out.                                   *)
(***************************************************************************)
\* Python's a & b on non-negative integers
RECURSIVE BitAnd(_, _)
BitAnd(a, b) ==
    IF a = 0 \/ b = 0 THEN 0
    ELSE (a % 2) * (b % 2) + 2 * BitAnd(a \div 2, b \div 2)

\* config.py 423-441: the masks the VERBOSE setting stands for, "info" when
\* it is not recognized
VerboseSettings ==
    [ fatal |-> 128, error |-> 192, warn |-> 224, notice |-> 240,
      play |-> 248, info |-> 252, verbose |-> 254, verbose2 |-> 255 ]

\* the levels print2 is called with (tests/test_print2.py 12-86)
Levels ==
    { "debug", "verbose2", "verbose", "info", "play", "notice", "warn",
      "error", "fatal" }

Messages == { "Debug message", "Error message" }

Line(label, message) == [label |-> label, message |-> message]

NoPrint == [level |-> "none", message |-> "", out |-> << >>, write_log |-> << >>]

\* config.py 472-505: the chain of tests of print2, in its order; a level
\* that no test names prints nothing.
print2(verbose, level, message) ==
    IF level = "fatal" /\ BitAnd(verbose, 128) # 0
    THEN [ out |-> << Line("[Error]", message) >>,
           write_log |-> << Line("[Error]", message) >> ]
    ELSE IF level = "error" /\ BitAnd(verbose, 64) # 0
    THEN [ out |-> << Line("[Error]", message) >>,
           write_log |-> << Line("[Error]", message) >> ]
    ELSE IF level = "warn" /\ BitAnd(verbose, 32) # 0
    THEN [ out |-> << Line("[Warn]", message) >>,
           write_log |-> << Line("[Warn]", message) >> ]
    ELSE IF level = "notice" /\ BitAnd(verbose, 16) # 0
    THEN [ out |-> << Line("[Notice]", message) >>, write_log |-> << >> ]
    ELSE IF level = "play" /\ BitAnd(verbose, 8) # 0
    THEN [ out |-> << Line("[Play]", message) >>, write_log |-> << >> ]
    ELSE IF level = "info" /\ BitAnd(verbose, 4) # 0
    THEN [ out |-> << Line("[Info]", message) >>, write_log |-> << >> ]
    ELSE IF level = "verbose" /\ BitAnd(verbose, 2) # 0
    THEN [ out |-> << Line("[Info]", message) >>, write_log |-> << >> ]
    ELSE IF level = "verbose2" /\ BitAnd(verbose, 1) # 0
    THEN [ out |-> << Line("[Info]", message) >>, write_log |-> << >> ]
    ELSE [ out |-> << >>, write_log |-> << >> ]

\* config.py 418-441: VERBOSE as the settings file gives it, "info"
PrintInit ==
    /\ VERBOSE = VerboseSettings.info
    /\ stdout = NoPrint

\* tests/test_print2.py 10 and 49: config.VERBOSE assigned
SetVerbose ==
    /\ \E v \in { VerboseSettings[n] : n \in DOMAIN VerboseSettings }
               \cup { 0, 1, 2, 4, 8, 16, 32, 64 } :
         VERBOSE' = v
    /\ stdout' = NoPrint

\* a call of print2
Print2 ==
    /\ \E level \in Levels, message \in Messages :
         stdout' = [level |-> level, message |-> message]
                       @@ print2(VERBOSE, level, message)
    /\ UNCHANGED VERBOSE

(***************************************************************************)
(* The specifications.  Spec is the supervisor with the dispatcher left as *)
(* constructed; SpecMail is the dispatcher with its callers, the           *)
(* supervisor left at its first line; SpecSched is the schedule generator  *)
(* with main() as its caller.  SpecAlert is the supervisor with the        *)
(* dispatcher running, SpecStore the cursor file under kills, SpecPrint    *)
(* the calls of print2.                                                    *)
(***************************************************************************)
Init == SupInit /\ MailInit /\ SchedInit /\ PrintInit

Next ==
    \/ Startup /\ UNCHANGED <<mailVars, schedVars, printVars>>
    \/ SigInt /\ UNCHANGED <<mailVars, schedVars, printVars>>
    \/ Interrupt /\ UNCHANGED <<mailVars, schedVars, printVars>>
    \/ ManualStop /\ UNCHANGED <<mailVars, schedVars, printVars>>
    \/ ManualKill /\ UNCHANGED <<mailVars, schedVars, printVars>>
    \/ ManualStart /\ UNCHANGED <<mailVars, schedVars, printVars>>
    \/ Exit130 /\ UNCHANGED <<mailVars, schedVars, printVars>>
    \/ AfterEncode /\ UNCHANGED <<mailVars, schedVars, printVars>>
    \/ RestartCommandStop /\ UNCHANGED <<mailVars, schedVars, printVars>>
    \/ RestartCommandStart /\ UNCHANGED <<mailVars, schedVars, printVars>>
    \/ RestartTimedStop /\ UNCHANGED <<mailVars, schedVars, printVars>>
    \/ RestartTimedStart /\ UNCHANGED <<mailVars, schedVars, printVars>>
    \/ Recover /\ UNCHANGED <<mailVars, schedVars, printVars>>
    \/ PollTick /\ UNCHANGED <<mailVars, schedVars, printVars>>
    \/ EncoderExit /\ UNCHANGED <<mailVars, schedVars, printVars>>
    \/ RelayExit /\ UNCHANGED <<mailVars, schedVars, printVars>>
    \/ ConnectionChecked /\ UNCHANGED <<mailVars, schedVars, printVars>>
    \/ PollExit /\ UNCHANGED <<mailVars, schedVars, printVars>>
    \/ CheckFile /\ UNCHANGED <<mailVars, schedVars, printVars>>
    \/ PlayItem /\ UNCHANGED <<mailVars, schedVars, printVars>>
    \/ PrepareLaunch /\ UNCHANGED <<mailVars, schedVars, printVars>>
    \/ EncoderStart /\ UNCHANGED <<mailVars, schedVars, printVars>>
    \/ ScheduleThreadBegin /\ UNCHANGED <<mailVars, schedVars, printVars>>
    \/ ScheduleThreadEnd /\ UNCHANGED <<mailVars, schedVars, printVars>>
    \/ Walk /\ UNCHANGED <<mailVars, schedVars, printVars>>
    \/ WriteIndexThread /\ UNCHANGED <<mailVars, schedVars, printVars>>
    \/ LoopTop /\ UNCHANGED <<mailVars, schedVars, printVars>>
    \/ AfterClip /\ UNCHANGED <<mailVars, schedVars, printVars>>

Spec == Init /\ [][Next]_vars

(***************************************************************************)
(* The supervisor with the e-mail alerts enabled: MAIL_ENABLE and every    *)
(* MAIL_ALERT_ON_ setting on, the dispatcher constructed and running.      *)
(***************************************************************************)
Endless == [Plain EXCEPT !.RETRY = -1]

AlertScenarios ==
    Scenarios \cup
      { << Endless, << LateEntry(2), NormalEntry(2) >> >>,
        << Timed, << NormalEntry(3), CommandEntry("INSTANT_RESTART"),
                     NormalEntry(2) >> >> }

AlertConfigs ==
    { [Config(sc[1], 1, 1, sc[2]) EXCEPT !.MAIL_ENABLE = TRUE] :
          sc \in AlertScenarios }

\* The cursor files of Cursors, and the one a run with a longer playlist
\* leaves: an index at the end of this playlist with a position in the item.
AlertCursors(c) ==
    Cursors(c) \cup { [idx |-> Len(c.MEDIA_PLAYLIST), el |-> 2] }

InitAlert ==
    /\ cfg \in AlertConfigs
    /\ index_file \in AlertCursors(cfg)
    /\ relays \in 0..1
    /\ MainLocals
    /\ MailInit
    /\ SchedInit
    /\ PrintInit

NextAlert ==
    \/ Next
    \/ Fatal /\ UNCHANGED <<mailVars, schedVars, printVars>>

SpecAlert == InitAlert /\ [][NextAlert]_vars

InitMail == SupIdle /\ MailInit /\ SchedInit /\ PrintInit

NextMail ==
    \/ AddAlert /\ UNCHANGED <<supVars, schedVars, printVars>>
    \/ Stop /\ UNCHANGED <<supVars, schedVars, printVars>>
    \/ Joined /\ UNCHANGED <<supVars, schedVars, printVars>>
    \/ WorkerGet /\ UNCHANGED <<supVars, schedVars, printVars>>
    \/ WorkerExit /\ UNCHANGED <<supVars, schedVars, printVars>>
    \/ WorkerSend /\ UNCHANGED <<supVars, schedVars, printVars>>
    \/ WorkerRequeue /\ UNCHANGED <<supVars, schedVars, printVars>>
    \/ MailTick /\ UNCHANGED <<supVars, schedVars, printVars>>

SpecMail == InitMail /\ [][NextMail]_vars

InitSched ==
    /\ cfg \in SchedConfigs \cup UploadConfigs
    /\ index_file = [idx |-> 0, el |-> 0]
    /\ relays = 0
    /\ MainLocals
    /\ MailInit
    /\ SchedInit
    /\ PrintInit

NextSched ==
    \/ NextItem /\ UNCHANGED <<supVars, mailVars, printVars>>
    \/ SchedTick /\ UNCHANGED <<supVars, mailVars, printVars>>
    \/ WriteSchedule /\ UNCHANGED <<supVars, mailVars, printVars>>

SpecSched == InitSched /\ [][NextSched]_vars

(***************************************************************************)
(* The cursor file as the file system holds it while it is written.  Each  *)
(* write of the cursor is open(PLAY_INDEX_FILE, "w") and one write() of a  *)
(* few bytes that reaches the file when the file is closed (playlist.py    *)
(* 877-878, main.py 1060-1063 and 1166-1169): the file is empty from the   *)
(* open to the close.  SpecStore is the supervisor reduced to its cursor:  *)
(* it reads the file, plays, stores, and is killed and started again at    *)
(* any point.                                                              *)
(***************************************************************************)
\* a line the file does not have: play_index_contents[k] raises IndexError
NoLine == -1

\* the file after open(..., "w") and before the data is flushed
Truncated == [idx |-> NoLine, el |-> NoLine]

\* main.py 639-647: int(play_index_contents[k]), 0 on IndexError
int_or_zero(line) == IF line = NoLine THEN 0 ELSE line

\* main.py 624-647: the cursor file read at the top of the loop
ReadIndexFile ==
    /\ pc = "top"
    /\ loc' = [loc EXCEPT !.play_index = int_or_zero(index_file.idx)]
    /\ stats' = [stats EXCEPT !.elapsed_time = int_or_zero(index_file.el)]
    /\ hist' = [NoHistory EXCEPT !.read_index = index_file.idx]
    /\ pc' = "play"
    /\ fix' = NoStep
    /\ UNCHANGED <<cfg, index_file, relays, rtmp_process, encoders, et,
                   pending, sched, clock>>

\* main.py 385: the item plays for another TIME_RECORD_INTERVAL seconds
Elapse ==
    /\ pc = "play"
    /\ stats.elapsed_time + cfg.TIME_RECORD_INTERVAL <= MaxClock
    /\ stats' = [stats EXCEPT !.elapsed_time = @ + cfg.TIME_RECORD_INTERVAL]
    /\ fix' = NoStep
    /\ UNCHANGED <<cfg, pc, loc, index_file, relays, rtmp_process, encoders,
                   et, pending, sched, clock, hist>>

\* playlist.py 877, main.py 1060-1062 and 1166-1168: the file opened for
\* writing, by write_index for the position reached or, with the index
\* moved on and elapsed_time 0, at the end of an item.
OpenIndexFile ==
    /\ pc = "play"
    /\ \E boundary \in BOOLEAN :
         /\ loc' = IF boundary
                   THEN [loc EXCEPT !.play_index = NextIndex(loc.play_index)]
                   ELSE loc
         /\ stats' = IF boundary THEN [stats EXCEPT !.elapsed_time = 0]
                     ELSE stats
    /\ index_file' = Truncated
    /\ fix' = [NoStep EXCEPT !.write = "open", !.from = index_file.idx]
    /\ pc' = "store"
    /\ UNCHANGED <<cfg, relays, rtmp_process, encoders, et, pending, sched,
                   clock, hist>>

\* playlist.py 878, main.py 1063 and 1169: the pair written and the file
\* closed
StoreIndex ==
    /\ pc = "store"
    /\ index_file' = [idx |-> loc.play_index, el |-> stats.elapsed_time]
    /\ fix' = [NoStep EXCEPT !.write = "stored", !.from = fix.from]
    /\ pc' = "play"
    /\ UNCHANGED <<cfg, stats, loc, relays, rtmp_process, encoders, et,
                   pending, sched, clock, hist>>

\* The process is killed, or the machine loses power, and the program is
\* started again (main.py 524-537): the file is what it was.
Kill ==
    /\ pc \in {"top", "play", "store"}
    /\ pc' = "start"
    /\ stats' = StreamStatsInit(cfg)
    /\ loc' = [loc EXCEPT !.play_index = 0]
    /\ rtmp_process' = "none"
    /\ fix' = [NoStep EXCEPT !.kind = "killed", !.write = fix.write,
                             !.from = fix.from]
    /\ hist' = NoHistory
    /\ UNCHANGED <<cfg, index_file, relays, encoders, et, pending, sched,
                   clock>>

NextStore ==
    \/ Startup /\ UNCHANGED <<mailVars, schedVars, printVars>>
    \/ ReadIndexFile /\ UNCHANGED <<mailVars, schedVars, printVars>>
    \/ Elapse /\ UNCHANGED <<mailVars, schedVars, printVars>>
    \/ OpenIndexFile /\ UNCHANGED <<mailVars, schedVars, printVars>>
    \/ StoreIndex /\ UNCHANGED <<mailVars, schedVars, printVars>>
    \/ Kill /\ UNCHANGED <<mailVars, schedVars, printVars>>

SpecStore == Init /\ [][NextStore]_vars

NextPrint ==
    \/ SetVerbose /\ UNCHANGED <<supVars, mailVars, schedVars>>
    \/ Print2 /\ UNCHANGED <<supVars, mailVars, schedVars>>

SpecPrint == InitMail /\ [][NextPrint]_vars

(***************************************************************************)
(* mail.py: the interval of schedule_error.  SpecWindow is the worker      *)
(* processing non-bypassed schedule_error alerts (playlist.py 627), with   *)
(* the clock in minutes and last_sent holding the time mail.py records,    *)
(* -1 while the type is absent from it; sends holds the time of the last   *)
(* successful send.                                                        *)
(***************************************************************************)
MinutesPerHour == 60    \* datetime.timedelta(hours=1), in minutes

\* the values of SCHEDULE_UPCOMING_LENGTH in the ini file, in minutes
UpcomingLengths == {1, 2, 62}

\* config.py 234-236: getint(...) * 60
UpcomingSeconds(ini) == ini * 60

\* the delay with the setting taken in minutes, as the ini file gives it
schedule_error_delay_minutes(c) ==
    Max(0, (c.SCHEDULE_UPCOMING_LENGTH \div 60) - 60)

\* mail.py 148-153: timedelta(minutes=max(0, config.SCHEDULE_UPCOMING_LENGTH - 60))
schedule_error_delay(c) == Max(0, c.SCHEDULE_UPCOMING_LENGTH - 60)

\* mail.py 131-136: the test of _send_email_if_allowed, bypass_interval False
WithinInterval(recorded, current_time) ==
    recorded # -1 /\ current_time - recorded < MinutesPerHour

ScheduleErrorItem == PrioritizedItem(0, "schedule_error", FALSE, 0)

Since(current_time) ==
    IF sends.schedule_error = -1 THEN -1 ELSE current_time - sends.schedule_error

InitWindow ==
    /\ \E ini \in UpcomingLengths :
          cfg = Config(Plain, 1, 1, << NormalEntry(2) >>)
                    @@ [SCHEDULE_UPCOMING_LENGTH |-> UpcomingSeconds(ini)]
    /\ index_file = [idx |-> 0, el |-> 0]
    /\ relays = 0
    /\ MainLocals
    /\ queue = << >>
    /\ last_sent = [schedule_error |-> -1]
    /\ lock = "free"
    /\ running = TRUE
    /\ retry_delay = 1
    /\ worker = Waiting
    /\ caller = "run"
    /\ sends = [schedule_error |-> -1]
    /\ mstep = NoMailStep
    /\ SchedInit
    /\ PrintInit

\* mail.py 128-160: _send_email_if_allowed for a schedule_error alert
SendScheduleError ==
    /\ running
    /\ lock = "free"
    /\ IF WithinInterval(last_sent.schedule_error, clock)
       THEN /\ mstep' = MailStep("dropped", ScheduleErrorItem, Since(clock),
                                 "Less than 1 hour since last alert was sent")
            /\ UNCHANGED <<last_sent, sends, lock, running>>
       ELSE \E outcome \in SendOutcomes :
              \/ /\ outcome = "sent"
                 /\ last_sent' = [schedule_error |->
                                     clock + schedule_error_delay(cfg)]
                 /\ sends' = [schedule_error |-> clock]
                 /\ mstep' = MailStep("sent", ScheduleErrorItem, Since(clock),
                                      "Sent e-mail")
                 /\ UNCHANGED <<lock, running>>
              \/ /\ outcome = "failed"
                 /\ mstep' = MailStep("failed", ScheduleErrorItem, Since(clock),
                                      "Failed to send e-mail alert")
                 /\ UNCHANGED <<last_sent, sends, lock, running>>
              \/ /\ outcome = "auth"
                 /\ running' = FALSE
                 /\ lock' = "worker"
                 /\ mstep' = MailStep("auth", ScheduleErrorItem, -1,
                                      "Mail features disabled")
                 /\ UNCHANGED <<last_sent, sends>>
    /\ UNCHANGED <<cfg, pc, stats, loc, index_file, relays, rtmp_process,
                   encoders, et, pending, sched, clock, fix, hist, queue,
                   retry_delay, worker, caller>>

\* a minute passes
Minute ==
    /\ clock < MaxMinutes
    /\ clock' = clock + 1
    /\ mstep' = NoMailStep
    /\ UNCHANGED <<cfg, pc, stats, loc, index_file, relays, rtmp_process,
                   encoders, et, pending, sched, fix, hist, queue, last_sent,
                   lock, running, retry_delay, worker, caller, sends>>

NextWindow ==
    \/ SendScheduleError /\ UNCHANGED <<schedVars, printVars>>
    \/ Minute /\ UNCHANGED <<schedVars, printVars>>

SpecWindow == InitWindow /\ [][NextWindow]_vars

(***************************************************************************)
(* main.py: the version check.  SpecVersion is the part of the poll loop   *)
(* of encoder_task that looks for a new version (lines 387-441), with      *)
(* check_new_version in its thread; the clock is in hours.  A version is   *)
(* the three strings of its tag, each a sequence of decimal digits.        *)
(***************************************************************************)
HoursPerDay == 24       \* datetime.timedelta(days=...), in hours
RetryHours == 1         \* datetime.timedelta(hours=1)

Components == { << 0 >>, << 9 >>, << 1, 0 >> }

Versions == [ major : Components, minor : Components, patch : Components ]

\* Python's a > b on two strings of digits
RECURSIVE StrGreater(_, _)
StrGreater(a, b) ==
    IF a = << >> THEN FALSE
    ELSE IF b = << >> THEN TRUE
    ELSE IF a[1] # b[1] THEN a[1] > b[1]
    ELSE StrGreater(Tail(a), Tail(b))

\* the comparison of the numbers the strings denote, component by component
RECURSIVE Number(_)
Number(a) == IF a = << >> THEN 0 ELSE 10 * Number(SubSeq(a, 1, Len(a) - 1)) + a[Len(a)]

NumericallyGreater(latest, saved) ==
    \/ Number(latest.major) > Number(saved.major)
    \/ /\ Number(latest.major) = Number(saved.major)
       /\ Number(latest.minor) > Number(saved.minor)
    \/ /\ Number(latest.major) = Number(saved.major)
       /\ Number(latest.minor) = Number(saved.minor)
       /\ Number(latest.patch) > Number(saved.patch)

\* main.py 208-212, compared as numbers in order
IsNewer_numeric(latest, saved) == NumericallyGreater(latest, saved)

\* main.py 208-212: the three tests on the strings, joined by or
IsNewer(latest, saved) ==
    \/ StrGreater(latest.major, saved.major)
    \/ StrGreater(latest.minor, saved.minor)
    \/ StrGreater(latest.patch, saved.patch)

\* What the request of check_new_version finds: an error, no release with
\* the prerelease flag asked for, or the first such release.
NoVersion == [major |-> << >>, minor |-> << >>, patch |-> << >>]

Responses ==
    { [kind |-> "error", release |-> NoVersion],
      [kind |-> "none", release |-> NoVersion] }
        \cup { [kind |-> "release", release |-> v] : v \in Versions }

\* check_new_version, lines 179-242: its result, False after an error, None
\* or the new version, or the exception that ends it when no release
\* matched and latest_major is unbound.
check_new_version(saved, response) ==
    IF response.kind = "error"
    THEN [state |-> "done", result |-> "False", version |-> saved]
    ELSE IF response.kind = "none"
    THEN [state |-> "raised", result |-> "UnboundLocalError", version |-> saved]
    ELSE [state |-> "done",
          result |-> IF IsNewer(response.release, saved) THEN "dict" ELSE "None",
          version |-> response.release]

NoFuture == [state |-> "None", result |-> "None", version |-> NoVersion]
PendingFuture == [state |-> "pending", result |-> "None", version |-> NoVersion]

InitVersion ==
    /\ \E days \in {1, 7}, enable \in BOOLEAN :
          cfg = [Config(Plain, 1, 1, << NormalEntry(2) >>)
                    EXCEPT !.MAIL_ENABLE = enable]
                    @@ [VERSION_CHECK_INTERVAL |-> days]
    /\ index_file = [idx |-> 0, el |-> 0]
    /\ relays = 1
    /\ pc = "poll"
    /\ \E saved \in Versions :
          stats = StreamStatsInit(cfg)
                    @@ [newest_version |-> saved, next_version_check |-> 0,
                        version_check_future |-> NoFuture]
    /\ loc = Locals
    /\ rtmp_process = "running"
    /\ encoders = << Command(1, 0, 0) >>
    /\ et = NoTask
    /\ pending = << >>
    /\ sched = "none"
    /\ clock = 0
    /\ fix = NoStep
    /\ hist = NoHistory
    /\ MailInit
    /\ SchedInit
    /\ PrintInit

\* check_new_version in its thread comes to its end
VersionChecked ==
    /\ stats.version_check_future.state = "pending"
    /\ \E response \in Responses :
         LET future == check_new_version(stats.newest_version, response)
         IN  stats' = [stats EXCEPT !.version_check_future = future,
                                    !.newest_version = future.version]
    /\ fix' = NoStep
    /\ UNCHANGED <<cfg, pc, loc, index_file, relays, rtmp_process, encoders,
                   et, pending, sched, clock, hist>>

\* encoder_task, lines 387-441: the version check of one pass of the loop
VersionPoll ==
    /\ pc = "poll"
    /\ LET future == stats.version_check_future
           interval == HoursPerDay * cfg.VERSION_CHECK_INTERVAL
       IN  IF clock > stats.next_version_check
           THEN IF future.state = "raised"
                THEN \* line 395: result() raises the exception of the thread
                     /\ loc' = [loc EXCEPT !.exc = future.result]
                     /\ pc' = "fatal"
                     /\ fix' = FixStep("version")
                     /\ UNCHANGED stats
                ELSE IF future.state = "done"
                THEN /\ stats' = [stats EXCEPT
                           !.version_check_future = NoFuture,
                           !.next_version_check = clock + interval]
                     /\ fix' = [FixStep("version") EXCEPT !.alerts =
                           IF future.result = "dict" /\ mail_daemon_running
                           THEN << Alert("new_version", FALSE, NoTime) >>
                           ELSE << >>]
                     /\ UNCHANGED <<loc, pc>>
                ELSE IF future.state = "None"
                THEN /\ stats' = [stats EXCEPT
                           !.version_check_future = PendingFuture]
                     /\ fix' = FixStep("version")
                     /\ UNCHANGED <<loc, pc>>
                ELSE /\ fix' = NoStep
                     /\ UNCHANGED <<stats, loc, pc>>
           ELSE /\ fix' = NoStep
                /\ UNCHANGED <<stats, loc, pc>>
    /\ UNCHANGED <<cfg, index_file, relays, rtmp_process, encoders, et,
                   pending, sched, clock, hist>>

\* an hour passes
Hour ==
    /\ clock < MaxHours
    /\ clock' = clock + 1
    /\ fix' = NoStep
    /\ UNCHANGED <<cfg, pc, stats, loc, index_file, relays, rtmp_process,
                   encoders, et, pending, sched, hist>>

NextVersion ==
    \/ VersionChecked /\ UNCHANGED <<mailVars, schedVars, printVars>>
    \/ VersionPoll /\ UNCHANGED <<mailVars, schedVars, printVars>>
    \/ Hour /\ UNCHANGED <<mailVars, schedVars, printVars>>
    \/ Fatal /\ UNCHANGED <<mailVars, schedVars, printVars>>

SpecVersion == InitVersion /\ [][NextVersion]_vars

(***************************************************************************)
(* The entry walk of main(), lines 649-884, from program start, over       *)
(* playlists create_playlist accepts: any list with at least one line,     *)
(* whatever its entries (playlist.py 88-109, 145-229).  The walk is a loop *)
(* of the supervisor's thread, which runs whenever it can.                 *)
(***************************************************************************)
WalkScenarios ==
    { << Plain, << BlankEntry, ExtraEntry, CommandEntry("MAIL") >> >>,
      << Plain, << NormalEntry(2), CommandEntry("RESTAR"), NormalEntry(3) >> >>,
      << Plain, << BlankEntry, NormalEntry(2), ExtraEntry, CommandEntry("RESTART") >> >>,
      << Plain, << CommandEntry("INSTANT_RESTART"), BlankEntry, NormalEntry(2) >> >>,
      << Plain, << CommandEntry("EXCEPTION"), NormalEntry(2) >> >>,
      << Stopping, << ExtraEntry, BlankEntry >> >> }

InitWalk ==
    /\ cfg \in { Config(sc[1], 1, 1, sc[2]) : sc \in WalkScenarios }
    /\ index_file \in AlertCursors(cfg)
    /\ relays \in 0..1
    /\ MainLocals
    /\ MailInit
    /\ SchedInit
    /\ PrintInit

NextWalk ==
    \/ Startup /\ UNCHANGED <<mailVars, schedVars, printVars>>
    \/ LoopTop /\ UNCHANGED <<mailVars, schedVars, printVars>>
    \/ Walk /\ UNCHANGED <<mailVars, schedVars, printVars>>

SpecWalk ==
    /\ InitWalk
    /\ [][NextWalk]_vars
    /\ WF_vars(Walk /\ UNCHANGED <<mailVars, schedVars, printVars>>)



(***************************************************************************)
(* The cursor (C1).                                                        *)
(***************************************************************************)
IsNormal(i) == i < media_playlist_length /\ Entry(i).type = "normal"
Wrote == fix.write # "none"

C2_AsStated ==
    pc \notin {"start", "exit0", "exit130"}
        => (relays = 1 /\ Len(encoders) <= 1)

\* C2, amended: at most one relay process and at most one encoder process
\* run in every state; exactly one relay runs while the supervisor holds a
\* relay that has not exited, and none between stop_stream and the next
\* rtmp_task (the restart wait) or after the relay died; an encoder is
\* polled only with a relay handle that rtmp_task returned and that the
\* supervisor has not stopped.
C2_Children ==
    /\ relays <= 1
    /\ Len(encoders) <= 1
    /\ (pc # "start" /\ rtmp_process = "running") => relays = 1
    /\ (pc # "start" /\ rtmp_process # "running") => relays = 0
    /\ pc = "poll" => rtmp_process \in {"running", "exited"}
    /\ et.proc = "running" <=> Len(encoders) = 1

\* C2: the restart wait of a time-based restart, with no relay running.
C2_Witness ==
    /\ pc = "restart_timed_wait"
    /\ relays = 0
    /\ rtmp_process = "killed"

(***************************************************************************)
(* The start position (C3, C4).                                            *)
(***************************************************************************)
\* C3 as stated: whenever the supervisor fixes the start position (at the
\* start of an item, after a failed encoder, in failure recovery, in a
\* manual restart) the resulting elapsed_time is at least video_resume_point.
C3_AsStated ==
    fix.kind \in {"start", "retry", "recover", "manual"}
        => stats.elapsed_time >= stats.video_resume_point

RetryLaunched == hist.kind = "retry" /\ pc = "poll" /\ et.ctx = "item"

C10_AsStated ==
    pc = "exit130" => (relays = 0 /\ Len(encoders) = 0)

(***************************************************************************)
(* The dispatcher (C5, C6, C7).                                            *)
(***************************************************************************)

\* C5, as stated: among alerts added with bypass_interval false and urgent
\* false, the worker never sends one less than one hour after the last
\* successful send of its type.
C5_AsStated ==
    (mstep.kind = "sent" /\ ~mstep.alert.bypass_interval /\ mstep.prev # -1)
        => mstep.prev >= MailHour

Dequeues == worker.pc = "get" /\ worker'.pc = "send"

Without(heap, i) == [ k \in 1..(Len(heap) - 1) |-> IF k < i THEN heap[k] ELSE heap[k + 1] ]

Items(heap) == { heap[k] : k \in 1..Len(heap) }

\* C7, as stated: the message the worker takes is one of the least
\* priority value in the queue and, among the queued messages of that
\* priority, the one added first.
C7_AsStated ==
    [][ Dequeues =>
          \E i \in 1..Len(queue) :
             /\ [queue[i] EXCEPT !.seq = 0] = worker'.item
             /\ Items(Renumber(Without(queue, i))) = Items(queue')
             /\ \A j \in 1..Len(queue) :
                   \/ queue[i].priority < queue[j].priority
                   \/ /\ queue[i].priority = queue[j].priority
                      /\ queue[i].seq <= queue[j].seq ]_vars

(***************************************************************************)
(* previous_files (C8).                                                    *)
(***************************************************************************)
\* C8: after every write_schedule call that updates previous_files, the
\* number of normal records in previous_files is at most
\* SCHEDULE_PREVIOUS_MAX_VIDEOS, and pruning by count or by age, tight or
\* loose, never leaves fewer than SCHEDULE_PREVIOUS_MIN_VIDEOS of them once
\* that many have been moved in: a call that finds n normal records leaves
\* at least the smaller of n + 1 and the minimum.
C8_Previous ==
    [][ wstep'.updated =>
          /\ Normals(previous_files') <= cfg.SCHEDULE_PREVIOUS_MAX_VIDEOS
          /\ Normals(previous_files') >=
                 Min(Normals(previous_files) + 1,
                     cfg.SCHEDULE_PREVIOUS_MIN_VIDEOS) ]_vars

\* A call found the minimum of normal records in previous_files, moved one
\* more in and pruned by age, in tight mode, back to the minimum.
C8_Witness ==
    /\ wstep.updated
    /\ cfg.SCHEDULE_PREVIOUS_PRUNE_TIGHT
    /\ cfg.SCHEDULE_PREVIOUS_MIN_VIDEOS < cfg.SCHEDULE_PREVIOUS_MAX_VIDEOS
    /\ wstep.normals_before = cfg.SCHEDULE_PREVIOUS_MIN_VIDEOS
    /\ Normals(previous_files) = cfg.SCHEDULE_PREVIOUS_MIN_VIDEOS

(***************************************************************************)
(* coming_up_next (C9).                                                    *)
(***************************************************************************)
\* The positions of the normal records of a schedule.
NormalPositions(json) == { i \in DOMAIN json : json[i].type = "normal" }

\* C9: a write_schedule call produces a coming_up_next list whose first
\* normal record is the item being played and in which every later normal
\* record's unixtime is the preceding normal record's unixtime plus its
\* length plus VIDEO_PADDING, plus the lengths with padding of the excluded
\* items between the two, each once, plus the duration of a restart
\* simulated before it; playlists with a later playable item, and with
\* consecutive excluded items, are among those it holds for.
C9_AsStated ==
    wstep.kind = "write_schedule" =>
        /\ wstep.status = "done"
        /\ LET json == recent_playlist
               at == NormalPositions(json)
           IN  /\ at # {}
               /\ \A i \in at :
                     IF \A j \in at : i <= j
                     THEN json[i].name = wstep.entry
                     ELSE LET k == CHOOSE j \in at :
                                     j < i /\ \A m \in at : m < i => m <= j
                          IN  json[i].unixtime =
                                  json[k].unixtime + json[k].length
                                  + cfg.VIDEO_PADDING
                                  + wstep.trail[i].excluded
                                  + wstep.trail[i].restart
\* C11: while an item is encoding, s seconds after its encoder started from
\* position p, with at least one interval gone by, the cursor file reads
\* (i, p + TIME_RECORD_INTERVAL * floor(s / TIME_RECORD_INTERVAL)), which
\* is what a restart after a kill at that moment finds.
C11_AsStated ==
    ( /\ pc = "poll"
      /\ et.ctx = "item"
      /\ et.polls >= cfg.TIME_RECORD_INTERVAL
      /\ pending = << >>
      /\ ~hist.raced )
    => index_file =
         [ idx |-> loc.play_index,
           el |-> et.cmd.skip + cfg.TIME_RECORD_INTERVAL
                                  * (et.polls \div cfg.TIME_RECORD_INTERVAL) ]

\* C12: an outage gets exactly one stream_resume alert, however many encoder
\* retries follow before an encoder next exits with code 0: at no moment
\* have two stream_resume alerts been added since the last exit with code
\* 0, and the supervisor never ends by an exception while it resumes.
C12_AsStated ==
    /\ loc.resumes <= 1
    /\ pc \notin {"fatal", "crashed"}

\* C13: with RETRY_ATTEMPTS = -1 and the dispatcher running, the first miss
\* of a Normal entry's file adds exactly one file_retry alert, the later
\* misses add none and poll again, and the call that finds the file after
\* a miss adds a stream_resume alert.
C13_AsStated ==
    [][ ( /\ pc = "check_file"
          /\ cfg.RETRY_ATTEMPTS < 0
          /\ mail_daemon_running
          /\ pc' \in {"check_file", "play"} )
        => /\ ( pc' = "check_file" /\ clock = loc.video_start_time )
                => Count(fix'.alerts, "file_retry") = 1
           /\ ( pc' = "check_file" /\ clock > loc.video_start_time )
                => Count(fix'.alerts, "file_retry") = 0
           /\ ( pc' = "play" /\ clock > loc.video_start_time )
                => Count(fix'.alerts, "stream_resume") = 1 ]_vars

\* C20: the recovery from a relay that exited while an item was encoding
\* leaves no encoder, does not touch the cursor file, sends stream_down
\* urgently when the dispatcher runs, starts a new relay, resets
\* videos_since_restart to 0 and stream_time_remaining to
\* STREAM_TIME_BEFORE_RESTART and goes back to the top of the loop to retry
\* the item.
C20_AsStated ==
    [][ ( /\ pc = "recover"
          /\ pc' # "recover"
          /\ loc.exc = "BackgroundProcessError" )
        => /\ pc' = "top"
           /\ loc'.retried
           /\ encoders' = << >>
           /\ index_file' = index_file
           /\ relays' = 1
           /\ rtmp_process' = "running"
           /\ stats'.videos_since_restart = 0
           /\ stats'.stream_time_remaining = cfg.STREAM_TIME_BEFORE_RESTART
           /\ mail_daemon_running
                => /\ Count(fix'.alerts, "stream_down") = 1
                   /\ \A k \in 1..Len(fix'.alerts) : fix'.alerts[k].urgent ]_vars

\* C18: a pass of the walk that finds play_index at or past the end of the
\* playlist, the stop after the last video not applying, goes on from the
\* first entry with elapsed_time 0: play_index becomes 0, or 1 when the
\* first entry is stepped over in the same pass; it adds one playlist_loop
\* alert when the dispatcher runs, and it leaves previous_files alone.
C18_Wrap ==
    [][ ( /\ pc = "walk"
          /\ loc.play_index >= media_playlist_length
          /\ ~(cfg.STOP_AFTER_LAST_VIDEO /\ stats.elapsed_time > 0)
          /\ (pc' # pc \/ loc' # loc) )
        => /\ hist'.wrapped
           /\ stats'.elapsed_time = 0
           /\ loc'.play_index \in {0, 1}
           /\ Entry(0).type = "normal"
                => (loc'.play_index = 0 /\ pc' = "check_file")
           /\ pc' = "walk" => loc'.play_index = 1
           /\ mail_daemon_running => Count(fix'.alerts, "playlist_loop") = 1
           /\ previous_files' = previous_files ]_vars

\* C18: the walk has just wrapped to a first entry that is a Normal item,
\* with its playlist_loop alert added.
C18_Witness ==
    /\ pc = "check_file"
    /\ hist.wrapped
    /\ loc.play_index = 0
    /\ stats.elapsed_time = 0
    /\ Count(fix.alerts, "playlist_loop") = 1

\* the sleeps of n retries: 1, 2, 4, ... capped at 64
RECURSIVE Backoff(_)
Backoff(n) ==
    IF n = 0 THEN << >>
    ELSE LET before == Backoff(n - 1)
         IN  Append(before,
                    IF n = 1 THEN 1 ELSE Min(2 * before[n - 1], 64))

\* the dispatcher runs and MAIL_ALERT_ON_REMOTE_ERROR is set
RemoteAlertsEnabled == mail_daemon_running /\ cfg.MAIL_ALERT_ON_REMOTE_ERROR

\* C14: an upload makes at most REMOTE_UPLOAD_ATTEMPTS attempts, sleeps 1, 2,
\* 4, ... seconds (capped at 64) between consecutive attempts, adds exactly
\* one remote_success_after_error alert when it succeeds after failures and
\* exactly one remote_error alert when every attempt fails, the alerts being
\* enabled.
C14_AsStated ==
    LET u == wstep.upload
    IN  u.attempts > 0
          => /\ u.attempts <= cfg.REMOTE_UPLOAD_ATTEMPTS
             /\ u.sleeps = Backoff(u.attempts - 1)
             /\ ( RemoteAlertsEnabled /\ u.ssh_result = "True"
                    /\ u.attempts > 1 )
                  => Count(u.alerts, "remote_success_after_error") = 1
             /\ ( RemoteAlertsEnabled /\ u.ssh_result = "None" )
                  => Count(u.alerts, "remote_error") = 1

\* C15: after an upload that failed with an authentication error
\* REMOTE_ADDRESS is cleared, so that no later schedule write uploads,
\* whether or not the dispatcher runs, and exactly one remote_auth_failed
\* alert is added when the alerts are enabled.
C15_AsStated ==
    wstep.upload.ssh_result = "False"
      => /\ REMOTE_ADDRESS = "None"
         /\ RemoteAlertsEnabled
              => Count(wstep.upload.alerts, "remote_auth_failed") = 1

\* C16: once a send has been refused authentication the dispatcher is
\* disabled: running is False, the queue is empty, and the call that met the
\* refusal has returned, the worker to its loop and the supervisor to its
\* own work.
C16_AsStated ==
    mstep.kind = "auth"
      => /\ ~running
         /\ queue = << >>
         /\ worker.pc # "blocked"
         /\ caller # "blocked"

\* C17: whenever the program is started, and whenever it reads the cursor,
\* the cursor file holds a complete (index, elapsed) pair: no kill during a
\* store leaves it empty, and no read falls back to (0, 0) for want of a
\* line.
C17_AsStated ==
    pc \in {"start", "top"} => index_file # Truncated

\* C19: with VERBOSE 0b11111111 a print2 call at any of the levels debug,
\* verbose2, verbose, info, play, notice, warn, error and fatal prints
\* exactly one line, which holds the message; with VERBOSE 0 a call at any
\* level prints nothing.
C19_AsStated ==
    stdout.level \in Levels
      => /\ VERBOSE = 255
              => /\ Len(stdout.out) = 1
                 /\ stdout.out[1].message = stdout.message
         /\ VERBOSE = 0 => stdout.out = << >>

\* C21: the recovery from a ConnectionCheckError raised while an item was
\* encoding leaves no encoder, starts a new relay, resets
\* videos_since_restart and stream_time_remaining, sets retried, goes back
\* to the top of the loop and sends no stream_down alert; and the supervisor
\* does not end, unless by a further failure, between that recovery and the
\* next launch of the encoder for the item.
C21_AsStated ==
    [][ /\ ( /\ pc = "recover"
             /\ pc' # "recover"
             /\ loc.exc = "ConnectionCheckError" )
          => /\ pc' = "top"
             /\ loc'.retried
             /\ encoders' = << >>
             /\ relays' = 1
             /\ rtmp_process' = "running"
             /\ stats'.videos_since_restart = 0
             /\ stats'.stream_time_remaining = cfg.STREAM_TIME_BEFORE_RESTART
             /\ Count(fix'.alerts, "stream_down") = 0
        /\ ( loc.recovered = "ConnectionCheckError" /\ loc.exc = "none" )
             => pc' \notin {"fatal", "crashed"} ]_vars

\* C22: a connection check raises ConnectionCheckError, under CHECK_STRICT,
\* exactly when the first URL tried does not answer and, without it, exactly
\* when no URL answers; a check that does not raise has reached a URL and
\* recorded the time.
C22_AsStated ==
    [][ fix'.kind = "check_connection"
          => LET reached == fix'.reached
                 failed == IF cfg.CHECK_STRICT THEN ~reached[1]
                           ELSE \A k \in 1..Len(reached) : ~reached[k]
             IN  /\ (et'.check_connection_future = "raised") <=> failed
                 /\ ~failed => stats'.last_connection_check = clock ]_vars

\* C23: a %RESTART or %INSTANT_RESTART directive that the walk begins to
\* execute is not the one that was executed last, to its end, with no item
\* launched since.
C23_AsStated ==
    [][ ( /\ pc = "walk"
          /\ loc'.restarted \/ loc'.instant_restarted )
        => loc.directive # loc'.play_index ]_vars

\* C24: when the top of the loop reads the cursor file after the recovery
\* from a %EXCEPTION directive, the file holds the index after the
\* directive, which is the play_index main() left the walk with.
C24_AsStated ==
    [][ ( /\ pc = "top"
          /\ pc' = "walk"
          /\ fix.kind = "recover"
          /\ loc.recovered = "ExceptionCommand" )
        => index_file.idx = loc.play_index ]_vars

\* C25: when the walk reaches %STOP at index i, the relay is stopped, the
\* cursor is written with play_index i + 1, an urgent playlist_stop alert
\* that names the 1-based line number i + 1 of the directive is added when
\* the dispatcher runs, no encoder is launched and the process exits with 0.
C25_AsStated ==
    [][ fix'.write = "stop"
          => /\ relays' = 0
             /\ index_file'.idx = loc'.directive + 1
             /\ encoders' = encoders
             /\ pc' = "exit0"
             /\ mail_daemon_running
                  => \E k \in 1..Len(fix'.alerts) :
                        /\ fix'.alerts[k].alert_type = "playlist_stop"
                        /\ fix'.alerts[k].urgent
                        /\ fix'.alerts[k].line_num = loc'.directive + 1 ]_vars

\* C26: the supervisor never makes two time-based restarts in a row.  A
\* time-based restart leaves videos_since_restart at 0, and it stays 0 until
\* the encoder is launched for an item; the next Normal item that reaches the
\* test is launched whatever its length and the stream time left; and a
\* time-based restart begins only when videos_since_restart > 0, the budget
\* is enabled and the item does not fit in it.
C26_Restart ==
    [][ /\ loc'.timed => stats'.videos_since_restart = 0
        /\ ( pc = "play" /\ pc' # "play" /\ loc.timed ) => pc' = "launch"
        /\ ( pc = "play" /\ pc' \in {"poll", "restart_timed"} )
             => /\ ~loc.timed
                /\ stats.videos_since_restart > 0
                /\ cfg.STREAM_TIME_BEFORE_RESTART # 0
                /\ stats.stream_time_remaining
                     - Entry(loc.play_index).length - cfg.VIDEO_PADDING
                     + stats.elapsed_time <= 0 ]_vars

\* a Normal item longer than the whole budget goes to its launch right after
\* a time-based restart
C26_Witness ==
    /\ pc = "launch"
    /\ loc.timed
    /\ stats.videos_since_restart = 0
    /\ cfg.STREAM_TIME_BEFORE_RESTART # 0
    /\ Entry(loc.play_index).length + cfg.VIDEO_PADDING
         >= cfg.STREAM_TIME_BEFORE_RESTART

\* C27: with a schedule path configured and the item's name not matching the
\* exclude pattern, also when no exclude pattern is configured, a schedule
\* write is started before the encoder of the item is launched.  The case
\* of an earlier write still running is left to C28.
C27_AsStated ==
    [][ ( /\ pc = "launch" /\ pc' \in {"encode", "fatal"}
          /\ cfg.SCHEDULE_PATH
          /\ ~Entry(loc.play_index).excluded
          /\ sched \in {"none", "done"} )
        => /\ fix'.kind = "write_schedule"
           /\ sched' = "started" ]_vars

\* C28: when the previous schedule write is still running as the next item,
\* or a retry of the item, begins, a new schedule write for the current item
\* is started once the older one has been cancelled.
C28_AsStated ==
    [][ ( /\ pc = "launch" /\ pc' \in {"encode", "fatal"}
          /\ cfg.SCHEDULE_PATH
          /\ cfg.SCHEDULE_EXCLUDE_FILE_PATTERN
          /\ ~Entry(loc.play_index).excluded
          /\ sched = "running" )
        => fix'.kind = "write_schedule" ]_vars

\* The duration write_schedule gives the directive at playlist line k:
\* playlist.py 591-594.
DirectiveDuration(c, k) ==
    IF c.MEDIA_PLAYLIST[k].info = "RESTART"
    THEN get_stream_restart_duration(c) ELSE c.STREAM_RESTART_WAIT

\* The item at playlist line k is followed by a %RESTART or %INSTANT_RESTART
\* directive and then by an item the schedule lists.
DirectiveFollows(c, k) ==
    /\ k + 2 <= Len(c.MEDIA_PLAYLIST)
    /\ c.MEDIA_PLAYLIST[k + 1].type = "command"
    /\ c.MEDIA_PLAYLIST[k + 1].info \in {"RESTART", "INSTANT_RESTART"}
    /\ Playable(c, k + 1)

\* C29: in write_schedule a %RESTART directive between two scheduled items
\* adds the simulated restart duration (both clips and STREAM_RESTART_WAIT)
\* to the timestamp of the next normal record, and %INSTANT_RESTART adds
\* STREAM_RESTART_WAIT: the record of the item after the directive is
\* written, and the time between the end of the item before it and its
\* timestamp is that duration.
C29_AsStated ==
    ( wstep.kind = "write_schedule" /\ DirectiveFollows(cfg, wstep.entry) )
    => /\ wstep.status = "done"
       /\ Len(wstep.trail) >= 2
       /\ wstep.trail[2].restart >= DirectiveDuration(cfg, wstep.entry + 1)

\* C30: a queued alert whose send failed for a reason other than
\* authentication goes back into the queue with priority 1, so that it is
\* not lost, and the worker's delay before the next retry doubles from 1 up
\* to retry_delay_max; a successful send sets it back to 1.
C30_AsStated ==
    [][ /\ ( worker.pc = "requeue" /\ worker'.pc # "requeue" )
             => /\ worker'.pc = "get"
                /\ Len(queue') = Len(queue) + 1
                /\ \E i \in 1..Len(queue') :
                      /\ queue'[i].priority = 1
                      /\ queue'[i].alert_type = worker.item.alert_type
                      /\ queue'[i].bypass_interval = worker.item.bypass_interval
                /\ retry_delay' = Min(2 * retry_delay, retry_delay_max)
        /\ mstep'.kind = "sent" => retry_delay' = 1 ]_vars

\* C31: after a schedule_error alert was sent at time t, a later one that
\* does not bypass the interval is dropped exactly while it is processed
\* before the end of a window of max(0, SCHEDULE_UPCOMING_LENGTH - 1 hour)
\* after t, the setting being the configured length, and is sent once the
\* window has passed.  Whether or not the window is counted on top of the
\* hour of every alert type, an alert sent comes no earlier than the window
\* and an alert dropped comes no later than an hour and the window.
C31_AsStated ==
    ( /\ mstep.alert.alert_type = "schedule_error"
      /\ mstep.prev # -1 )
    => /\ mstep.kind = "sent"
            => mstep.prev >= schedule_error_delay_minutes(cfg)
       /\ mstep.kind = "dropped"
            => mstep.prev < MinutesPerHour + schedule_error_delay_minutes(cfg)

\* C32: when a version probe has completed, the supervisor sets the next
\* deadline one hour later if the probe returned the error sentinel and the
\* configured interval later otherwise; a probe is started only after the
\* deadline has passed and while none is in flight.
C32_AsStated ==
    [][ /\ ( /\ stats.version_check_future.state = "done"
             /\ stats'.version_check_future.state = "None" )
           => stats'.next_version_check =
                 clock + ( IF stats.version_check_future.result = "False"
                           THEN RetryHours
                           ELSE HoursPerDay * cfg.VERSION_CHECK_INTERVAL )
        /\ ( /\ stats.version_check_future.state # "pending"
             /\ stats'.version_check_future.state = "pending" )
           => /\ stats.version_check_future.state = "None"
              /\ clock > stats.next_version_check ]_vars

\* C33: check_new_version reports a new version exactly when the release
\* found is greater than the stored newest version, their major, minor and
\* patch numbers compared as numbers in that order.
C33_AsStated ==
    [][ ( /\ stats.version_check_future.state = "pending"
          /\ stats'.version_check_future.state = "done"
          /\ stats'.version_check_future.result # "False" )
        => ( stats'.version_check_future.result = "dict"
               <=> NumericallyGreater(stats'.version_check_future.version,
                                      stats.newest_version) ) ]_vars

(***************************************************************************)
(* C34: when an exception other than a background-process failure, a       *)
(* connection failure or SIGINT reaches the handler of main(), the relay   *)
(* and the running encoders are killed and the exception that leaves       *)
(* main() is the one that entered the handler, whether mail is enabled or  *)
(* not.                                                                    *)
(***************************************************************************)
C34_AsStated ==
    [][ ( /\ pc = "fatal"
          /\ pc' = "crashed" )
        => /\ loc'.exc = loc.exc
           /\ relays' = 0
           /\ encoders' = << >> ]_vars

(***************************************************************************)
(* C35: a run of write_schedule leaves stats.elapsed_time,                 *)
(* stats.video_resume_point and the cursor file as they were when its      *)
(* thread began.                                                           *)
(***************************************************************************)
C35_AsStated ==
    [][ ( /\ sched = "started"
          /\ sched' = "running" )
        => /\ stats'.elapsed_time = stats.elapsed_time
           /\ stats'.video_resume_point = stats.video_resume_point
           /\ index_file' = index_file ]_vars

(***************************************************************************)
(* C36: a connection probe is started, by an encoder launch or by the poll *)
(* loop when CHECK_INTERVAL has elapsed, only when the probe started       *)
(* before it has completed.                                                *)
(***************************************************************************)
C36_AsStated ==
    [][ ( /\ cfg.CHECK_URL
          /\ et'.check_connection_future = "pending"
          /\ \/ /\ et.proc # "running"
                /\ et'.proc = "running"
                /\ et'.polls = 0
             \/ /\ pc = "poll"
                /\ et'.polls = et.polls + 1
                /\ et.check_connection_wait - 1 <= 0 )
        => et.check_connection_future # "pending" ]_vars

(***************************************************************************)
(* C37: no thread waits for good on the dispatcher's lock: neither the     *)
(* supervisor, inside stop() or add_alert, nor the worker, inside a send,  *)
(* is ever blocked on a lock that will not be released.                    *)
(***************************************************************************)
C37_AsStated ==
    /\ caller # "blocked"
    /\ worker.pc # "blocked"
    /\ lock = "free"

(***************************************************************************)
(* C38: while the dispatcher is running its worker thread is alive: no     *)
(* exception ends the worker loop, whatever the supervisor adds to the     *)
(* queue between the worker's dequeue of a message and its requeue.        *)
(***************************************************************************)
C38_AsStated ==
    running => worker.pc # "dead"

(***************************************************************************)
(* C39: the entry walk always finishes: whenever the supervisor is in the  *)
(* walk it later leaves it, for a Normal entry, a restart or the exit of   *)
(* the process.                                                            *)
(***************************************************************************)
C39_AsStated ==
    (pc = "walk") ~> (pc # "walk")

(***************************************************************************)
(* C40: when an item is considered for playing after the relay was         *)
(* restarted, by a %RESTART or %INSTANT_RESTART directive, a time-based    *)
(* restart or the recovery from a failure, videos_since_restart is 0 and   *)
(* stream_time_remaining is STREAM_TIME_BEFORE_RESTART.                    *)
(***************************************************************************)
C40_AsStated ==
    ( /\ pc = "play"
      /\ \/ loc.directive # -1
         \/ loc.timed
         \/ loc.recovered # "none" )
    => /\ stats.videos_since_restart = 0
       /\ stats.stream_time_remaining = cfg.STREAM_TIME_BEFORE_RESTART

====
